---- MODULE Spec2Model ----
(***************************************************************************)
(* Verification model of the property-forecasting repository.              *)
(*                                                                         *)
(*   SpecFit      UKPropertyResiliencePredictor.fit: the three base        *)
(*                learners fitted in a thread pool, the sequential         *)
(*                fallback and the meta-learner / weight step.             *)
(*   SpecApp      backend/app.py: train_model_on_startup and the           *)
(*                predict_resilience handler.                              *)
(*   SpecScrape   MultiSourcePropertyScraper.search_all_sources.           *)
(*   SpecAggregate  _aggregate_results applied to arbitrary results.       *)
(*   SpecScansan  ScansanAPI._request: rate limiting and retries.          *)
(*   SpecFlood    FloodRiskScraper.get_flood_risk on every response.       *)
(*   SpecSpatial  calculate_spatial_lag_features on every index and table. *)
(*   SpecSector   extract_postcode_sector on every postcode string.        *)
(*   SpecLabel    construct_resilience_labels on every small table.        *)
(*   SpecPenalty  the risk penalty of predict() on successive inputs.      *)
(*   SpecPredict  predict() of the price predictor on every input row.     *)
(*   SpecSample   the sector-year aggregator and the label constructor.    *)
(*   SpecBatch    backend/app.py: get_batch_properties.                    *)
(***************************************************************************)
EXTENDS Integers, Sequences, FiniteSets, TLC

VARIABLES
    \* ---- UKPropertyResiliencePredictor (uk_property_resilience_model_optimized.py)
    parallel_training,    \* constructor argument
    use_stacking,         \* constructor argument
    fit_raises,           \* input: the estimator fits that raise, per attempt
    submit_raises,        \* input: the executor.submit call that raises ("none" if none)
    fit_pc,               \* position of the thread running fit()
    task_pc,              \* position of each pool task
    seq_idx,              \* train_models_sequential: index of the learner being fitted
    seq_pc,               \* train_models_sequential: position inside that learner's fit
    label_encoder,        \* self.label_encoder
    lgb_classifier,       \* self.lgb_classifier
    rf_classifier,        \* self.rf_classifier
    en_classifier,        \* self.en_classifier
    feature_importances,  \* self.feature_importances
    classes_,             \* self.label_encoder.classes_: the labels it was fitted on
    y_train_encoded,      \* the local y_train_encoded of each train_* call
    trained_on,           \* history: what each estimator's fit was given
    meta_classifier,      \* self.meta_classifier
    model_weights,        \* self.model_weights
    pool_exc,             \* an exception is propagating out of the with-block
    par_raised,           \* history: train_models_parallel raised
    seq_status,           \* history: "none", "running", "completed", "raised"
    post_raised,          \* history: a step after base training raised
    acc,                  \* history: accesses made by the pool tasks, per object
    conflicts,            \* history: objects accessed by two live tasks, one writing
    \* ---- backend/app.py
    resilience_model,     \* the global model instance: "None", "unfitted", "fitted"
    startup_pc,           \* position inside train_model_on_startup
    train_failed,         \* history: construction or fit raised during startup
    request,              \* the last request given to predict_resilience
    response,             \* the response to it
    input_data,           \* the row handed to resilience_model.predict
    predict_on,           \* history: state of the model predict was last invoked on
    \* ---- backend/scraper/multi_source_scraper.py
    sc_pc,                \* position inside search_all_sources
    sc_postcode,          \* the postcode argument ("None" when not given)
    coords,               \* result of _get_coords_from_postcode: "None" or "found"
    futures,              \* the submitted sources, in submission order
    src_state,            \* each fetch: "unsubmitted", "running", "returned", "raised"
    src_result,           \* the dict a fetch returned
    collected_as,         \* history: how future.result() ended for each source
    results,              \* the results dict: <<[source, result], ...>> in insertion order
    aggregated,           \* the dict _aggregate_results returned
    \* ---- backend/scraper/scansan_api.py
    rq_pc,                \* position of a ScansanAPI._request call
    rate_limit_delay,     \* self.rate_limit_delay
    call_retries,         \* the retries argument of the outermost call
    retries,              \* the retries argument of the current (recursive) call
    since_last,           \* time since self._last_request_time, capped at LongAgo
    statuses,             \* history: outcome of each HTTP request of this call
    waits,                \* history: the backoff sleeps of this call
    slept_before,         \* history: the backoff slept since the last request
    rate_slept,           \* history: what _rate_limit slept before the last request
    rq_result,            \* the dict the call returned
    \* ---- backend/scraper/flood_risk_scraper.py
    fl_pc,                \* position of a get_flood_risk call
    fl_response,          \* input: what the Environment Agency request ends in
    fl_result,            \* the dict get_flood_risk returned
    \* ---- calculate_spatial_lag_features (uk_property_resilience_model_optimized.py)
    sp_pc,                \* position of a calculate_spatial_lag_features call
    spatial_tree,         \* self.spatial_tree: "None" or "KDTree"
    postcode_sectors,     \* self.postcode_sectors: the sectors that have a centroid
    postcode_coords,      \* self.postcode_coords: the centroid of each sector
    tie_break,            \* which of two equally distant centroids the tree reports first
    neighbor_sectors,     \* history: the neighbor_sectors of the call (<<>> if none)
    postcode_sector,      \* argument: the target sector
    sector_stats_df,      \* argument: the postcode_sector column, in row order
    sp_result,            \* what the call returned or raised
    \* ---- extract_postcode_sector (uk_property_resilience_model_optimized.py)
    ps_pc,                \* position of an extract_postcode_sector call
    ps_postcode,          \* argument postcode: None, NaN or a string (its characters)
    ps_result,            \* the value returned
    ps_again,             \* the value returned for that value as the argument
    \* ---- construct_resilience_labels (uk_property_resilience_model_optimized.py)
    lb_pc,                \* position of a construct_resilience_labels call
    lb_stats,             \* argument sector_stats_df: one record per sector
    lb_result,            \* the resilience_score and resilience_label columns
    \* ---- the risk overlay of predict()
    pen_input,            \* flood score, crime rate (tenths) and horizon of the last call
    risk_penalty,         \* the penalty computed for them, in units of 1e-5
    \* ---- predict() of the price predictor
    pd_pc,                \* position of a predict call
    pd_input,             \* current_price, the row's flood and crime, the models' outputs
    forecasts,            \* per horizon: growth, price_value and risk_penalty
    \* ---- the sector-year aggregator of the price predictor
    ag_pc,                \* position of an aggregation
    ag_tx,                \* input: per (sector, year) the transaction count and median price
    samples,              \* the SectorYearSamples built from it
    dataset,              \* the label constructor's output: samples with their targets
    training_set,         \* per horizon, the (sector, year) keys its model is trained on
    \* ---- backend/app.py: get_batch_properties
    bt_pc,                \* position inside the handler
    bt_i,                 \* the loop's position in addresses (from 1)
    bt_request,           \* the JSON body and how each address's lookup ends
    bt_results,           \* the results list
    bt_response           \* the response returned

fitVars == <<parallel_training, use_stacking, fit_raises, submit_raises, fit_pc,
             task_pc, seq_idx, seq_pc, label_encoder, lgb_classifier,
             rf_classifier, en_classifier, feature_importances, classes_,
             y_train_encoded, trained_on, meta_classifier, model_weights,
             pool_exc, par_raised, seq_status, post_raised, acc, conflicts>>

appVars == <<resilience_model, startup_pc, train_failed, request, response,
             input_data, predict_on>>

scrapeVars == <<sc_pc, sc_postcode, coords, futures, src_state, src_result,
                collected_as, results, aggregated>>

scansanVars == <<rq_pc, rate_limit_delay, call_retries, retries, since_last,
                 statuses, waits, slept_before, rate_slept, rq_result>>

floodVars == <<fl_pc, fl_response, fl_result>>

spatialVars == <<sp_pc, spatial_tree, postcode_sectors, postcode_coords,
                 tie_break, neighbor_sectors, postcode_sector, sector_stats_df,
                 sp_result>>

sectorVars == <<ps_pc, ps_postcode, ps_result, ps_again>>

labelVars == <<lb_pc, lb_stats, lb_result>>

penaltyVars == <<pen_input, risk_penalty>>

predictVars == <<pd_pc, pd_input, forecasts>>

sampleVars == <<ag_pc, ag_tx, samples, dataset, training_set>>

batchVars == <<bt_pc, bt_i, bt_request, bt_results, bt_response>>

vars == <<fitVars, appVars, scrapeVars, scansanVars, floodVars, spatialVars,
          sectorVars, labelVars, penaltyVars, predictVars, sampleVars,
          batchVars>>

\* What the actions of one component leave alone.
notFitVars ==
    <<appVars, scrapeVars, scansanVars, floodVars, spatialVars, sectorVars,
      labelVars, penaltyVars, predictVars, sampleVars, batchVars>>

notAppVars ==
    <<fitVars, scrapeVars, scansanVars, floodVars, spatialVars, sectorVars,
      labelVars, penaltyVars, predictVars, sampleVars, batchVars>>

notScrapeVars ==
    <<fitVars, appVars, scansanVars, floodVars, spatialVars, sectorVars,
      labelVars, penaltyVars, predictVars, sampleVars, batchVars>>

notScansanVars ==
    <<fitVars, appVars, scrapeVars, floodVars, spatialVars, sectorVars,
      labelVars, penaltyVars, predictVars, sampleVars, batchVars>>

notFloodVars ==
    <<fitVars, appVars, scrapeVars, scansanVars, spatialVars, sectorVars,
      labelVars, penaltyVars, predictVars, sampleVars, batchVars>>

notSpatialVars ==
    <<fitVars, appVars, scrapeVars, scansanVars, floodVars, sectorVars,
      labelVars, penaltyVars, predictVars, sampleVars, batchVars>>

notSectorVars ==
    <<fitVars, appVars, scrapeVars, scansanVars, floodVars, spatialVars,
      labelVars, penaltyVars, predictVars, sampleVars, batchVars>>

notLabelVars ==
    <<fitVars, appVars, scrapeVars, scansanVars, floodVars, spatialVars,
      sectorVars, penaltyVars, predictVars, sampleVars, batchVars>>

notPenaltyVars ==
    <<fitVars, appVars, scrapeVars, scansanVars, floodVars, spatialVars,
      sectorVars, labelVars, predictVars, sampleVars, batchVars>>

notPredictVars ==
    <<fitVars, appVars, scrapeVars, scansanVars, floodVars, spatialVars,
      sectorVars, labelVars, penaltyVars, sampleVars, batchVars>>

notSampleVars ==
    <<fitVars, appVars, scrapeVars, scansanVars, floodVars, spatialVars,
      sectorVars, labelVars, penaltyVars, predictVars, batchVars>>

notBatchVars ==
    <<fitVars, appVars, scrapeVars, scansanVars, floodVars, spatialVars,
      sectorVars, labelVars, penaltyVars, predictVars, sampleVars>>

None == "None"

(***************************************************************************)
(* Base learners and the statements of their train_* methods.              *)
(***************************************************************************)
Learners == {"lgb", "rf", "en"}

Attempts == {"par", "seq"}

\* train_lightgbm_classifier: fit_transform(y_train), transform(y_val),
\* construct, fit, permutation importance, score.
LgbProgram == <<"enc_fit", "enc_val", "alloc", "fit", "imp", "score">>

\* train_random_forest_classifier: transform(y_train), construct, fit, importances.
RfProgram == <<"enc_train", "alloc", "fit", "imp">>

\* train_elasticnet_classifier: transform(y_train), construct, fit,
\* importances, transform(y_val), score.
EnProgram == <<"enc_train", "alloc", "fit", "imp", "enc_val", "score">>

Program(l) ==
    CASE l = "lgb" -> LgbProgram
      [] l = "rf"  -> RfProgram
      [] l = "en"  -> EnProgram

Statements == {"enc_fit", "enc_train", "enc_val", "alloc", "fit", "imp", "score"}

Running(pc) == pc \in Statements

Finished(pc) == pc \in {"idle", "done", "raised"}

FirstStmt(l) == Program(l)[1]

\* The statement after s in train_<l>_classifier, "done" after the last one.
NextStmt(l, s) ==
    LET i == CHOOSE i \in 1..Len(Program(l)) : Program(l)[i] = s
    IN  IF i = Len(Program(l)) THEN "done" ELSE Program(l)[i + 1]

\* An attribute that holds no estimator yet (Python None).
NoEstimator == [fitted |-> FALSE, by |-> None]

Classifier(l) ==
    CASE l = "lgb" -> lgb_classifier
      [] l = "rf"  -> rf_classifier
      [] l = "en"  -> en_classifier

ClfName(l) ==
    CASE l = "lgb" -> "lgb_classifier"
      [] l = "rf"  -> "rf_classifier"
      [] l = "en"  -> "en_classifier"

Objects == {"label_encoder", "feature_importances", "lgb_classifier",
            "rf_classifier", "en_classifier"}

\* The predictor state a statement touches, as <<object, "r" or "w">>.
Access(l, s) ==
    CASE s = "enc_fit"   -> {<<"label_encoder", "w">>}
      [] s = "enc_train" -> {<<"label_encoder", "r">>}
      [] s = "enc_val"   -> {<<"label_encoder", "r">>}
      [] s = "alloc"     -> {<<ClfName(l), "w">>}
      [] s = "fit"       -> {<<ClfName(l), "w">>}
      [] s = "imp"       -> {<<ClfName(l), "r">>, <<"feature_importances", "w">>}
      [] s = "score"     -> {<<ClfName(l), "r">>}

\* A statement raises: LabelEncoder.transform on an encoder that was never
\* fitted raises NotFittedError; an estimator's fit raises when the input says so.
StmtRaises(l, s, att) ==
    \/ s \in {"enc_train", "enc_val"} /\ ~label_encoder.fitted
    \/ s = "fit" /\ l \in fit_raises[att]

\* The arguments (X_train, y_train, X_val, y_val) of train_<l>_classifier
\* as fit() names them.
FitArgs ==
    [X_train |-> "X_train_scaled", y_train |-> "y_train_class",
     X_val |-> "X_val_scaled", y_val |-> "y_val_class"]

\* Mutant: the pool wrapper of the elastic net passes the validation split
\* as the training split.
ArgsSwappedInPool(l, att) ==
    IF att = "par" /\ l = "en"
       THEN [X_train |-> FitArgs.X_val, y_train |-> FitArgs.y_val,
             X_val |-> FitArgs.X_train, y_val |-> FitArgs.y_train]
       ELSE FitArgs

\* What train_<l>_classifier is called with by the pool wrappers train_lgb,
\* train_rf, train_en ("par") and by train_models_sequential ("seq").
Args(l, att) == FitArgs

\* random_state of the three estimators.
RandomState == 42

\* A label vector encoded with the classes of an encoder.
Encoded(y, classes) == [labels |-> y, classes |-> classes]

NotEncoded == Encoded(None, None)

Training(X, y, seed) == [X |-> X, y |-> y, random_state |-> seed]

NoTraining == Training(None, NotEncoded, 0)

SetClassifier(l, v) ==
    /\ lgb_classifier' = IF l = "lgb" THEN v ELSE lgb_classifier
    /\ rf_classifier'  = IF l = "rf"  THEN v ELSE rf_classifier
    /\ en_classifier'  = IF l = "en"  THEN v ELSE en_classifier

\* The effect of one statement of train_<l>_classifier on the predictor.
StmtEffect(l, s, att) ==
    /\ label_encoder' =
          IF s = "enc_fit" THEN [fitted |-> TRUE, by |-> att] ELSE label_encoder
    /\ IF s = "alloc"
          THEN SetClassifier(l, [fitted |-> FALSE, by |-> att])
          ELSE IF s = "fit" /\ ~StmtRaises(l, s, att)
                  THEN SetClassifier(l, [fitted |-> TRUE, by |-> att])
                  ELSE UNCHANGED <<lgb_classifier, rf_classifier, en_classifier>>
    /\ feature_importances' =
          IF s = "imp" THEN [feature_importances EXCEPT ![l] = att]
                       ELSE feature_importances
    /\ classes_' = IF s = "enc_fit" THEN Args(l, att).y_train ELSE classes_
    /\ y_train_encoded' =
          IF s = "enc_fit"
             THEN [y_train_encoded EXCEPT
                      ![l] = Encoded(Args(l, att).y_train, Args(l, att).y_train)]
          ELSE IF s = "enc_train" /\ ~StmtRaises(l, s, att)
             THEN [y_train_encoded EXCEPT
                      ![l] = Encoded(Args(l, att).y_train, classes_)]
          ELSE y_train_encoded
    /\ trained_on' =
          IF s = "fit" /\ ~StmtRaises(l, s, att)
             THEN [trained_on EXCEPT
                      ![l] = Training(Args(l, att).X_train, y_train_encoded[l],
                                      RandomState)]
             ELSE trained_on

(***************************************************************************)
(* fit(), train_models_parallel and train_models_sequential.               *)
(***************************************************************************)
FitInit ==
    /\ parallel_training \in BOOLEAN
    /\ use_stacking \in BOOLEAN
    /\ fit_raises \in [Attempts -> SUBSET Learners]
    /\ submit_raises \in Learners \cup {"none"}
    /\ fit_pc = "start"
    /\ task_pc = [l \in Learners |-> "idle"]
    /\ seq_idx = 0
    /\ seq_pc = "idle"
    /\ label_encoder = [fitted |-> FALSE, by |-> None]
    /\ lgb_classifier = NoEstimator
    /\ rf_classifier = NoEstimator
    /\ en_classifier = NoEstimator
    /\ feature_importances = [l \in Learners |-> None]
    /\ classes_ = None
    /\ y_train_encoded = [l \in Learners |-> NotEncoded]
    /\ trained_on = [l \in Learners |-> NoTraining]
    /\ meta_classifier = None
    /\ model_weights = None
    /\ pool_exc = FALSE
    /\ par_raised = FALSE
    /\ seq_status = "none"
    /\ post_raised = FALSE
    /\ acc = [o \in Objects |-> {}]
    /\ conflicts = {}

inputVars == <<parallel_training, use_stacking, fit_raises, submit_raises>>

histVars == <<par_raised, seq_status, post_raised>>

predictorVars == <<label_encoder, lgb_classifier, rf_classifier, en_classifier,
                   feature_importances, classes_, y_train_encoded, trained_on>>

\* Mutant: the sequential run skips the first learner.
SeqOrderSkipsFirst == <<"rf", "en">>

\* train_models_sequential: the three fits, in this order.
SeqOrder == <<"lgb", "rf", "en">>

\* fit(): preprocessing, split and scaling are done; choose the training path.
FitStart ==
    /\ UNCHANGED notFitVars
    /\ fit_pc = "start"
    /\ IF parallel_training
          THEN /\ fit_pc' = "submit_lgb"
               /\ UNCHANGED <<seq_idx, seq_pc, seq_status>>
          ELSE /\ fit_pc' = "seq"
               /\ seq_idx' = 1
               /\ seq_pc' = FirstStmt(SeqOrder[1])
               /\ seq_status' = "running"
    /\ UNCHANGED <<inputVars, task_pc, predictorVars, meta_classifier, model_weights,
                   pool_exc, par_raised, post_raised, acc, conflicts>>

AfterSubmit(l) ==
    CASE l = "lgb" -> "submit_rf"
      [] l = "rf"  -> "submit_en"
      [] l = "en"  -> "wait_lgb"

\* executor.submit(train_<l>): the task becomes runnable, or submit raises.
Submit(l) ==
    /\ UNCHANGED notFitVars
    /\ fit_pc = "submit_" \o l
    /\ IF submit_raises = l
          THEN /\ pool_exc' = TRUE
               /\ fit_pc' = "pool_exit"
               /\ UNCHANGED task_pc
          ELSE /\ task_pc' = [task_pc EXCEPT ![l] = FirstStmt(l)]
               /\ fit_pc' = AfterSubmit(l)
               /\ UNCHANGED pool_exc
    /\ UNCHANGED <<inputVars, seq_idx, seq_pc, predictorVars, meta_classifier,
                   model_weights, histVars, acc, conflicts>>

Live(u) == Running(task_pc[u])

\* The objects on which this access of task l conflicts with an access made
\* by another task that is still running.
NewConflicts(l, s) ==
    {a[1] : a \in {a \in Access(l, s) :
        \E b \in acc[a[1]] : b[1] # l /\ Live(b[1]) /\ (a[2] = "w" \/ b[2] = "w")}}

\* One statement of pool task l (a worker thread inside train_models_parallel).
TaskStep(l) ==
    /\ UNCHANGED notFitVars
    /\ Running(task_pc[l])
    /\ LET s == task_pc[l] IN
          /\ StmtEffect(l, s, "par")
          /\ task_pc' = [task_pc EXCEPT ![l] =
                 IF StmtRaises(l, s, "par") THEN "raised" ELSE NextStmt(l, s)]
          /\ acc' = [o \in Objects |->
                 acc[o] \cup {<<l, a[2]>> : a \in {a \in Access(l, s) : a[1] = o}}]
          /\ conflicts' = conflicts \cup NewConflicts(l, s)
    /\ UNCHANGED <<inputVars, fit_pc, seq_idx, seq_pc, meta_classifier, model_weights,
                   pool_exc, histVars>>

AfterWait(l) ==
    CASE l = "lgb" -> "wait_rf"
      [] l = "rf"  -> "wait_en"
      [] l = "en"  -> "pool_exit"

\* future.result(): blocks until the task has finished; re-raises its exception.
JoinReady(l) == task_pc[l] \in {"done", "raised"}

Wait(l) ==
    /\ UNCHANGED notFitVars
    /\ fit_pc = "wait_" \o l
    /\ JoinReady(l)
    /\ IF task_pc[l] = "raised"
          THEN /\ pool_exc' = TRUE
               /\ fit_pc' = "pool_exit"
          ELSE /\ fit_pc' = AfterWait(l)
               /\ UNCHANGED pool_exc
    /\ UNCHANGED <<inputVars, task_pc, seq_idx, seq_pc, predictorVars, meta_classifier,
                   model_weights, histVars, acc, conflicts>>

\* Mutant: the pool is left without waiting for its tasks.
PoolDrainedNoWait == TRUE

\* ThreadPoolExecutor.__exit__: shutdown(wait=True) returns once every
\* submitted task has finished.
PoolDrained == \A l \in Learners : Finished(task_pc[l])

\* Leaving the with-block: train_models_parallel returns, or its exception
\* reaches the try in fit().
PoolExit ==
    /\ UNCHANGED notFitVars
    /\ fit_pc = "pool_exit"
    /\ PoolDrained
    /\ IF pool_exc
          THEN /\ fit_pc' = "except"
               /\ par_raised' = TRUE
          ELSE /\ fit_pc' = "combine"
               /\ UNCHANGED par_raised
    /\ pool_exc' = FALSE
    /\ UNCHANGED <<inputVars, task_pc, seq_idx, seq_pc, predictorVars, meta_classifier,
                   model_weights, seq_status, post_raised, acc, conflicts>>

\* Mutant: the handler lets the exception abort fit().
FitExceptAborts ==
    /\ UNCHANGED notFitVars
    /\ fit_pc = "except"
    /\ fit_pc' = "aborted"
    /\ UNCHANGED <<inputVars, task_pc, seq_idx, seq_pc, seq_status, predictorVars,
                   meta_classifier, model_weights, pool_exc, par_raised, post_raised,
                   acc, conflicts>>

\* fit(): except Exception -> train_models_sequential(...)
FitExcept ==
    /\ UNCHANGED notFitVars
    /\ fit_pc = "except"
    /\ fit_pc' = "seq"
    /\ seq_idx' = 1
    /\ seq_pc' = FirstStmt(SeqOrder[1])
    /\ seq_status' = "running"
    /\ UNCHANGED <<inputVars, task_pc, predictorVars, meta_classifier, model_weights,
                   pool_exc, par_raised, post_raised, acc, conflicts>>

\* One statement of train_models_sequential, run by the thread running fit().
SeqStep ==
    /\ UNCHANGED notFitVars
    /\ fit_pc = "seq"
    /\ LET l == SeqOrder[seq_idx]
           s == seq_pc
       IN /\ StmtEffect(l, s, "seq")
          /\ IF StmtRaises(l, s, "seq")
                THEN /\ fit_pc' = "aborted"
                     /\ seq_status' = "raised"
                     /\ UNCHANGED <<seq_idx, seq_pc>>
                ELSE IF NextStmt(l, s) # "done"
                THEN /\ seq_pc' = NextStmt(l, s)
                     /\ UNCHANGED <<fit_pc, seq_idx, seq_status>>
                ELSE IF seq_idx < Len(SeqOrder)
                THEN /\ seq_idx' = seq_idx + 1
                     /\ seq_pc' = FirstStmt(SeqOrder[seq_idx + 1])
                     /\ UNCHANGED <<fit_pc, seq_status>>
                ELSE /\ fit_pc' = "combine"
                     /\ seq_status' = "completed"
                     /\ seq_pc' = "done"
                     /\ UNCHANGED seq_idx
    /\ UNCHANGED <<inputVars, task_pc, meta_classifier, model_weights, pool_exc,
                   par_raised, post_raised, acc, conflicts>>

Fitted(c) == c.fitted

BaseFitted == Fitted(lgb_classifier) /\ Fitted(rf_classifier) /\ Fitted(en_classifier)

\* fit(): train_meta_classifier or optimize_weights; both use all three
\* base classifiers (predict_proba / score) and the label encoder.
Combine ==
    /\ UNCHANGED notFitVars
    /\ fit_pc = "combine"
    /\ IF BaseFitted /\ label_encoder.fitted
          THEN /\ fit_pc' = "quantile"
               /\ meta_classifier' = IF use_stacking THEN "fitted" ELSE meta_classifier
               /\ model_weights' = IF use_stacking THEN model_weights ELSE "set"
               /\ UNCHANGED post_raised
          ELSE /\ fit_pc' = "aborted"
               /\ post_raised' = TRUE
               /\ UNCHANGED <<meta_classifier, model_weights>>
    /\ UNCHANGED <<inputVars, task_pc, seq_idx, seq_pc, predictorVars, pool_exc,
                   par_raised, seq_status, acc, conflicts>>

\* fit(): train_quantile_regressors, then the validation report, then return self.
Quantile ==
    /\ UNCHANGED notFitVars
    /\ fit_pc = "quantile"
    /\ fit_pc' = "validate"
    /\ UNCHANGED <<inputVars, task_pc, seq_idx, seq_pc, predictorVars, meta_classifier,
                   model_weights, pool_exc, histVars, acc, conflicts>>

Validate ==
    /\ UNCHANGED notFitVars
    /\ fit_pc = "validate"
    /\ fit_pc' = "done"
    /\ UNCHANGED <<inputVars, task_pc, seq_idx, seq_pc, predictorVars, meta_classifier,
                   model_weights, pool_exc, histVars, acc, conflicts>>

FitNext ==
    \/ FitStart
    \/ \E l \in Learners : Submit(l)
    \/ \E l \in Learners : TaskStep(l)
    \/ \E l \in Learners : Wait(l)
    \/ PoolExit
    \/ FitExcept
    \/ SeqStep
    \/ Combine
    \/ Quantile
    \/ Validate

(***************************************************************************)
(* Properties of fit().                                                    *)
(***************************************************************************)
AfterBaseTraining == {"combine", "quantile", "validate", "done"}

\* C1: when train_models_parallel raises, fit() does not abort: it runs
\* train_models_sequential; only a failure of the sequential run (or of a later
\* step) aborts fit(), and once the sequential run has completed fit() goes on
\* to the meta-learner / weight step and the steps after it.
C1_FallbackInsteadOfAbort ==
    par_raised =>
        /\ fit_pc # "except" => seq_status # "none"
        /\ fit_pc = "aborted" => (seq_status = "raised" \/ post_raised)
        /\ seq_status = "completed" => fit_pc \in AfterBaseTraining
        /\ fit_pc \in AfterBaseTraining => seq_status = "completed"

\* C1 witness: the parallel attempt raised, the sequential run succeeded and
\* fit() returned.
C1_Witness == par_raised /\ seq_status = "completed" /\ fit_pc = "done"

\* C2: no pool task reads or writes predictor state that another pool task,
\* running at the same time, writes.
C2_DisjointTaskState == conflicts = {}

\* C3: whenever the meta-learner / weight step begins, the three base
\* classifiers are fitted and no pool task is still running.
C3_JoinBeforeCombine ==
    fit_pc = "combine" =>
        /\ BaseFitted
        /\ \A l \in Learners : ~Running(task_pc[l])

\* C3 witness: the step begins after a parallel attempt in which all three
\* tasks ran to completion.
C3_Witness ==
    /\ fit_pc = "combine"
    /\ parallel_training
    /\ ~par_raised
    /\ \A l \in Learners : task_pc[l] = "done"

\* C4: after a fallback that succeeded, each base classifier is the fitted
\* estimator produced by the sequential run.
C4_FallbackRefitsAll ==
    (par_raised /\ fit_pc \in AfterBaseTraining) =>
        \A l \in Learners : Classifier(l) = [fitted |-> TRUE, by |-> "seq"]

\* C4 witness: the fallback succeeded although some pool task had completed
\* its own fit and another had failed.
C4_Witness ==
    /\ par_raised
    /\ fit_pc = "combine"
    /\ \E l \in Learners : task_pc[l] = "done"
    /\ \E l \in Learners : task_pc[l] = "raised"

\* What train_models_sequential alone gives estimator l: the scaled training
\* features, the training labels encoded with their own classes, seed 42.
SequentialTraining ==
    [X |-> "X_train_scaled",
     y |-> [labels |-> "y_train_class", classes |-> "y_train_class"],
     random_state |-> 42]

\* C24: whichever path fitted the base learners (the pool, the sequential
\* run, or the sequential run after a failed pool), each of the three
\* estimators is fitted and was fitted from the same features, the same
\* encoded labels and the same seed as in the sequential run.
C24_SamePathInputs ==
    fit_pc \in AfterBaseTraining =>
        \A l \in Learners :
            /\ Classifier(l).fitted
            /\ trained_on[l] = SequentialTraining

\* C24 witness: the pool fitted all three estimators and fit() went on
\* without the sequential run.
C24_Witness ==
    /\ fit_pc = "quantile"
    /\ parallel_training
    /\ seq_status = "none"
    /\ \A l \in Learners : Classifier(l) = [fitted |-> TRUE, by |-> "par"]
    /\ \A l \in Learners : trained_on[l].y.classes = "y_train_class"

\* C25: when no estimator's fit fails and no submit fails, train_models_parallel
\* does not raise, however the three pool tasks are interleaved.
C25_ScheduleIndependent ==
    (fit_raises["par"] = {} /\ submit_raises = "none") => ~par_raised

\* C26: once the sequential fallback has started, every pool task has
\* finished, and no pool task takes a step from then on.
C26_FallbackAfterDrain ==
    /\ []((par_raised /\ seq_status # "none") =>
             \A l \in Learners : Finished(task_pc[l]))
    /\ [][seq_status # "none" => task_pc' = task_pc]_vars

\* C26 witness: the sequential run is fitting its second estimator after a
\* pool in which one task raised and another completed.
C26_Witness ==
    /\ par_raised
    /\ fit_pc = "seq"
    /\ seq_idx = 2
    /\ seq_pc = "fit"
    /\ \E l \in Learners : task_pc[l] = "raised"
    /\ \E l \in Learners : task_pc[l] = "done"

(***************************************************************************)
(* backend/app.py: rows, the model's inference interface, startup and the  *)
(* predict_resilience handler.                                             *)
(*                                                                         *)
(* Units: flood_risk is the 0..10 score; every other fractional quantity   *)
(* (crime_rate, market_regime, ...) is in tenths; prices are in GBP.       *)
(***************************************************************************)

\* A one-row frame: its columns in order and the value of each.
Row(cols, val) == [cols |-> cols, val |-> val]

Range(s) == {s[i] : i \in 1..Len(s)}

HasCol(row, c) == c \in Range(row.cols)

\* input_data[c] = v: an existing column keeps its place, a new one is appended.
SetCol(row, c, v) ==
    IF HasCol(row, c)
       THEN Row(row.cols, [row.val EXCEPT ![c] = v])
       ELSE Row(Append(row.cols, c),
                [x \in Range(row.cols) \cup {c} |-> IF x = c THEN v ELSE row.val[x]])

RECURSIVE FillMissing(_, _)
\* for col in feature_names: if col not in input_data.columns: input_data[col] = 0.0
FillMissing(row, names) ==
    IF names = <<>> THEN row
    ELSE FillMissing(IF HasCol(row, Head(names)) THEN row
                     ELSE SetCol(row, Head(names), 0), Tail(names))

\* The fit-time feature schema of the price predictor (resilience_model.feature_names).
feature_names ==
    <<"current_price", "tx_volume", "volatility", "flood_risk", "crime_rate",
      "market_regime", "growth_1y", "growth_3y", "growth_5y">>

\* A sector snapshot with the given current price and crime rate.
StatsRow(price, crime) ==
    Row(feature_names,
        [c \in Range(feature_names) |->
            CASE c = "current_price" -> price
              [] c = "tx_volume"     -> 12
              [] c = "crime_rate"    -> crime
              [] OTHER               -> 1])

\* The same snapshot from a dataset that has no crime column.
StatsRowNoCrime(price) ==
    LET cols == SelectSeq(feature_names, LAMBDA c : c # "crime_rate")
    IN  Row(cols, [c \in Range(cols) |-> StatsRow(price, 0).val[c]])

MeanPrice == 450000

MeanCrime == 42

\* The snapshots get_sector_stats can return for a sector the model knows.
KnownStats ==
    {StatsRow(650000, 0), StatsRow(650000, 30), StatsRowNoCrime(650000)}

\* resilience_model.default_stats: dataset-wide column means.
DefaultStatsChoices == {StatsRow(MeanPrice, 0), StatsRow(MeanPrice, MeanCrime)}

Horizons == {1, 3, 5}

\* Mutant: crime lowers the penalty.
RiskPenaltyCrimeRebate(flood, crime10, h) == (flood * 150 - crime10 * 10) * h

\* predict(): the risk penalty of horizon h, in units of 1e-5:
\* (flood/10 * 0.015 + crime/10 * 0.010) * h, crime given in tenths.
RiskPenalty(flood, crime10, h) == (flood * 150 + crime10 * 10) * h

\* The largest flood score and the largest crime rate (in tenths) tried.
MaxFlood == 10

MaxCrime == 20

PenaltyInput(flood, crime10, h) == [flood |-> flood, crime |-> crime10, h |-> h]

PenaltyInit ==
    /\ pen_input = PenaltyInput(0, 0, 1)
    /\ risk_penalty = RiskPenalty(0, 0, 1)

\* predict() computes the penalty of one horizon for a feature row.
ComputePenalty(flood, crime10, h) ==
    /\ UNCHANGED notPenaltyVars
    /\ pen_input' = PenaltyInput(flood, crime10, h)
    /\ risk_penalty' = RiskPenalty(flood, crime10, h)

PenaltyNext ==
    \E flood \in 0..MaxFlood, crime10 \in 0..MaxCrime, h \in Horizons :
        ComputePenalty(flood, crime10, h)

FallbackPrice == 500000

CrimePlaceholder == 50

RecoveryRegime == 3

FloodScores == {0, 4, 7, 10}

\* A request and what its handling met: lookup says whether get_sector_stats
\* found the sector ("none": the handler did not get that far).
Request(body, postcode, scrape, lookup) ==
    [body |-> body, postcode |-> postcode, scrape |-> scrape, lookup |-> lookup]

NoRequest == Request("none", "None", "none", "none")

NoResponse == [status |-> "none", success |-> FALSE, error |-> "none", valuation |-> 0]

NoRow == Row(<<>>, <<>>)

AppInit ==
    /\ resilience_model = "None"
    /\ startup_pc = "start"
    /\ train_failed = FALSE
    /\ request = NoRequest
    /\ response = NoResponse
    /\ input_data = NoRow
    /\ predict_on = "never"

\* train_model_on_startup: load_kaggle_data returns the transactions, returns
\* None (the function returns), or raises (caught by the except).
StartupLoad ==
    /\ UNCHANGED notAppVars
    /\ startup_pc = "start"
    /\ \E outcome \in {"ok", "none", "raises"} :
          startup_pc' = IF outcome = "ok" THEN "loaded" ELSE "done"
    /\ UNCHANGED <<resilience_model, train_failed, request, response, input_data,
                   predict_on>>

\* resilience_model = UKPropertyFuturePricePredictor(parallel_training=True)
StartupConstruct ==
    /\ UNCHANGED notAppVars
    /\ startup_pc = "loaded"
    /\ \E raises \in BOOLEAN :
          IF raises
             THEN /\ startup_pc' = "done"
                  /\ train_failed' = TRUE
                  /\ UNCHANGED resilience_model
             ELSE /\ startup_pc' = "constructed"
                  /\ resilience_model' = "unfitted"
                  /\ UNCHANGED train_failed
    /\ UNCHANGED <<request, response, input_data, predict_on>>

\* resilience_model.fit(...): returns, or raises into the except, which logs.
StartupFit ==
    /\ UNCHANGED notAppVars
    /\ startup_pc = "constructed"
    /\ \E raises \in BOOLEAN :
          IF raises
             THEN /\ train_failed' = TRUE
                  /\ UNCHANGED resilience_model
             ELSE /\ resilience_model' = "fitted"
                  /\ UNCHANGED train_failed
    /\ startup_pc' = "done"
    /\ UNCHANGED <<request, response, input_data, predict_on>>

\* request.get_json(): the parsed body. Without a JSON body it returns None or
\* answers 415 itself, depending on the framework version.
GetJson(body, legacy) ==
    CASE body = "object" -> "dict"
      [] body = "null"   -> "None"
      [] body = "array"  -> "list"
      [] body = "absent" -> IF legacy THEN "None" ELSE "http415"

Respond(status, success, error) ==
    [status |-> status, success |-> success, error |-> error, valuation |-> 0]

\* The 200 response; current_valuation.value is int(current_price).
RespondForecast(current_price) ==
    [status |-> "200", success |-> TRUE, error |-> "none", valuation |-> current_price]

\* Mutant: the price is taken from the row also when the lookup missed.
CurrentPriceOfRow(hit, stats) ==
    IF HasCol(stats, "current_price") THEN stats.val["current_price"]
    ELSE FallbackPrice

\* current_price: 500000 for an unknown sector, else
\* stats.get('current_price', 500000).
CurrentPrice(hit, stats) ==
    IF ~hit THEN FallbackPrice
    ELSE IF HasCol(stats, "current_price") THEN stats.val["current_price"]
    ELSE FallbackPrice

\* Steps 1-3 of the handler: the row built from the sector statistics and the
\* live flood score.
BuildInput(stats, flood_score) ==
    LET r1 == SetCol(stats, "flood_risk", flood_score)
        r2 == IF HasCol(r1, "crime_rate") THEN r1
              ELSE SetCol(r1, "crime_rate", CrimePlaceholder)
        r3 == SetCol(r2, "market_regime", RecoveryRegime)
    IN  FillMissing(r3, feature_names)

\* POST /api/predict_resilience.
\*   body, legacy : what request.get_json() yields
\*   postcode     : data.get('postcode'): "None", "" or a postcode
\*   scrape       : search_property_multi_source raises, or returns a result
\*                  with ("flood") or without ("noflood") data.flood_risk
\*   score        : the risk_score of that flood entry
\*   hit          : get_sector_stats finds the sector
\*   stats        : the row it returns, or resilience_model.default_stats
\*   model_raises : where a call on a model that was never fitted raises
PredictResilience(body, legacy, postcode) ==
    /\ UNCHANGED notAppVars
    /\ startup_pc = "done"
    /\ IF resilience_model = "None"
          THEN /\ response' = Respond("503", FALSE, "Model not loaded")
               /\ request' = Request(body, postcode, "none", "none")
               /\ UNCHANGED <<input_data, predict_on>>
       ELSE IF GetJson(body, legacy) = "http415"
          THEN /\ response' = Respond("415", FALSE, "Unsupported Media Type")
               /\ request' = Request(body, postcode, "none", "none")
               /\ UNCHANGED <<input_data, predict_on>>
       ELSE IF GetJson(body, legacy) # "dict"
          THEN \* data.get raises AttributeError outside the try
               /\ response' = Respond("unhandled", FALSE, "AttributeError")
               /\ request' = Request(body, postcode, "none", "none")
               /\ UNCHANGED <<input_data, predict_on>>
       ELSE IF postcode \in {"None", ""}
          THEN /\ response' = Respond("400", FALSE, "Postcode is required")
               /\ request' = Request(body, postcode, "none", "none")
               /\ UNCHANGED <<input_data, predict_on>>
       ELSE \E scrape \in {"raises", "flood", "noflood"} :
            IF scrape = "raises"
               THEN /\ request' = Request(body, postcode, scrape, "none")
                    /\ response' = Respond("500", FALSE, "str(e)")
                    /\ UNCHANGED <<input_data, predict_on>>
               ELSE \E model_raises \in
                          IF resilience_model = "unfitted"
                             THEN {"no", "lookup", "predict"} ELSE {"no"} :
                       IF model_raises = "lookup"
                          THEN /\ request' = Request(body, postcode, scrape, "none")
                               /\ response' = Respond("500", FALSE, "str(e)")
                               /\ UNCHANGED <<input_data, predict_on>>
                          ELSE \E score \in IF scrape = "flood" THEN FloodScores ELSE {0},
                                  hit \in BOOLEAN :
                               \E stats \in IF hit THEN KnownStats
                                            ELSE DefaultStatsChoices :
                                  /\ request' = Request(body, postcode, scrape,
                                                        IF hit THEN "found" ELSE "miss")
                                  /\ input_data' = BuildInput(stats, score)
                                  /\ predict_on' = resilience_model
                                  /\ response' =
                                        IF model_raises = "predict"
                                           THEN Respond("500", FALSE, "str(e)")
                                           ELSE RespondForecast(CurrentPrice(hit, stats))
    /\ UNCHANGED <<resilience_model, startup_pc, train_failed>>

Bodies == {"object", "null", "array", "absent"}

Postcodes == {"None", "", "SW7 3PH", "ZZ9 9ZZ"}

AppNext ==
    \/ StartupLoad
    \/ StartupConstruct
    \/ StartupFit
    \/ \E body \in Bodies, legacy \in BOOLEAN, postcode \in Postcodes :
          PredictResilience(body, legacy, postcode)

(***************************************************************************)
(* backend/scraper/multi_source_scraper.py                                 *)
(*                                                                         *)
(* A result dict is [success, error, payload]: success is "True", "False"  *)
(* or "missing" (no such key), error is a message or "missing", payload    *)
(* stands for the data fields of the source.                               *)
(***************************************************************************)
Sources == {"land_registry", "flood_risk", "other"}

Dict(success, error, payload) ==
    [success |-> success, error |-> error, payload |-> payload]

NoDict == Dict("missing", "missing", "none")

\* result.get("success") is truthy
Succeeded(r) == r.success = "True"

\* The record the except clause of search_all_sources builds:
\* {"success": False, "error": str(e), "source": source}
FailureRecord(source, e) == Dict("False", e, "source=" \o source)

Entry(source, r) == [source |-> source, result |-> r]

Keys(res) == {res[i].source : i \in 1..Len(res)}

\* results[source] = r: a new key is appended.
Put(res, source, r) == Append(res, Entry(source, r))

Lookup(res, source) ==
    (CHOOSE e \in Range(res) : e.source = source).result

\* The data fields each source contributes in _aggregate_results.
LandRegistryFields ==
    {"last_sale_price", "last_sale_date", "sale_history", "sale_history_source"}

FloodFields == {"flood_risk"}

FieldSource(f) == IF f \in FloodFields THEN "flood_risk" ELSE "land_registry"

\* Mutant: the data section is filled from every result, successful or not.
ContributesAnyResult(res, source) == source \in Keys(res)

\* if '<source>' in successful
Contributes(res, source) ==
    source \in Keys(res) /\ Succeeded(Lookup(res, source))

\* _aggregate_results(results, address)
AggregateResults(res) ==
    LET ok       == SelectSeq(res, LAMBDA e : Succeeded(e.result))
        bad      == SelectSeq(res, LAMBDA e : ~Succeeded(e.result))
        failed   == [i \in 1..Len(bad) |->
                       [source |-> bad[i].source,
                        error  |-> IF bad[i].result.error = "missing"
                                      THEN "Unknown error"
                                      ELSE bad[i].result.error]]
        fields   == IF ok = <<>> THEN {}
                    ELSE {f \in LandRegistryFields \cup FloodFields :
                             Contributes(res, FieldSource(f))}
    IN  [success            |-> ok # <<>>,
         sources_queried    |-> [i \in 1..Len(res) |-> res[i].source],
         successful_sources |-> [i \in 1..Len(ok) |-> ok[i].source],
         failed_sources     |-> failed,
         data               |-> [f \in fields |->
                                   [from  |-> FieldSource(f),
                                    value |-> Lookup(res, FieldSource(f)).payload]],
         error              |-> IF ok = <<>> THEN "All sources failed" ELSE "missing",
         returned           |-> TRUE]

NotAggregated ==
    [success |-> FALSE, sources_queried |-> <<>>, successful_sources |-> <<>>,
     failed_sources |-> <<>>, data |-> <<>>, error |-> "missing", returned |-> FALSE]

ScrapeInit ==
    /\ sc_pc = "idle"
    /\ sc_postcode = "None"
    /\ coords = "None"
    /\ futures = <<>>
    /\ src_state = [s \in Sources |-> "unsubmitted"]
    /\ src_result = [s \in Sources |-> NoDict]
    /\ collected_as = [s \in Sources |-> "none"]
    /\ results = <<>>
    /\ aggregated = NotAggregated

\* Mutant: the flood fetch is submitted whenever a postcode was given.
SearchStartFloodByPostcode(postcode, lookup) ==
    /\ UNCHANGED notScrapeVars
    /\ sc_pc = "idle"
    /\ sc_postcode' = postcode
    /\ LET c  == IF postcode \in {"None", ""} THEN "None" ELSE lookup
           lr == IF postcode \in {"None", ""} THEN <<>> ELSE <<"land_registry">>
           fl == IF postcode \in {"None", ""} THEN <<>> ELSE <<"flood_risk">>
       IN /\ coords' = c
          /\ futures' = lr \o fl
          /\ src_state' = [s \in Sources |->
                 IF s \in Range(lr \o fl) THEN "running" ELSE "unsubmitted"]
    /\ sc_pc' = "collect"
    /\ UNCHANGED <<src_result, collected_as, results, aggregated>>

\* search_all_sources(address, postcode): the coordinate lookup, then the
\* submissions: land_registry iff postcode, flood_risk iff coords.
SearchStart(postcode, lookup) ==
    /\ UNCHANGED notScrapeVars
    /\ sc_pc = "idle"
    /\ sc_postcode' = postcode
    /\ LET c  == IF postcode \in {"None", ""} THEN "None" ELSE lookup
           lr == IF postcode \in {"None", ""} THEN <<>> ELSE <<"land_registry">>
           fl == IF c = "None" THEN <<>> ELSE <<"flood_risk">>
       IN /\ coords' = c
          /\ futures' = lr \o fl
          /\ src_state' = [s \in Sources |->
                 IF s \in Range(lr \o fl) THEN "running" ELSE "unsubmitted"]
    /\ sc_pc' = "collect"
    /\ UNCHANGED <<src_result, collected_as, results, aggregated>>

\* What a fetch can return: search_land_registry and get_flood_risk return a
\* dict with success True, or with success False and an error.
FetchReturns(s) ==
    {Dict("True", "missing", "data:" \o s), Dict("False", "API error", "data:" \o s)}

\* A fetch running in the pool returns or raises.
FetchFinish(s) ==
    /\ UNCHANGED notScrapeVars
    /\ src_state[s] = "running"
    /\ \/ \E r \in FetchReturns(s) :
             /\ src_state' = [src_state EXCEPT ![s] = "returned"]
             /\ src_result' = [src_result EXCEPT ![s] = r]
       \/ /\ src_state' = [src_state EXCEPT ![s] = "raised"]
          /\ UNCHANGED src_result
    /\ UNCHANGED <<sc_pc, sc_postcode, coords, futures, collected_as, results,
                   aggregated>>

\* Mutant: no except clause around future.result(): the exception leaves
\* search_all_sources.
CollectedUncaught(s, how) ==
    IF how = "returned"
       THEN /\ results' = Put(results, s, src_result[s])
            /\ UNCHANGED sc_pc
       ELSE /\ sc_pc' = "raised"
            /\ UNCHANGED results

\* try: results[source] = future.result(timeout=30)
\* except Exception as e: results[source] = {success: False, error: str(e), source}
Collected(s, how) ==
    /\ results' = Put(results, s,
          CASE how = "returned" -> src_result[s]
            [] how = "raised"   -> FailureRecord(s, "exception")
            [] how = "timeout"  -> FailureRecord(s, ""))
    /\ UNCHANGED sc_pc

\* The loop over futures.items(): the next future's result() returns, raises
\* the task's exception, or times out while the task is still running.
Collect ==
    /\ UNCHANGED notScrapeVars
    /\ sc_pc = "collect"
    /\ Len(results) < Len(futures)
    /\ LET s   == futures[Len(results) + 1]
           how == IF src_state[s] = "running" THEN "timeout" ELSE src_state[s]
       IN /\ Collected(s, how)
          /\ collected_as' = [collected_as EXCEPT ![s] = how]
    /\ UNCHANGED <<sc_postcode, coords, futures, src_state, src_result, aggregated>>

\* Leaving the with-block waits for every fetch; then _aggregate_results.
Aggregate ==
    /\ UNCHANGED notScrapeVars
    /\ sc_pc = "collect"
    /\ Len(results) = Len(futures)
    /\ \A s \in Sources : src_state[s] # "running"
    /\ aggregated' = AggregateResults(results)
    /\ sc_pc' = "returned"
    /\ UNCHANGED <<sc_postcode, coords, futures, src_state, src_result, collected_as,
                   results>>

ScrapeNext ==
    \/ \E postcode \in {"None", "", "SW7 3PH"}, lookup \in {"None", "found"} :
          SearchStart(postcode, lookup)
    \/ \E s \in Sources : FetchFinish(s)
    \/ Collect
    \/ Aggregate

(***************************************************************************)
(* backend/scraper/scansan_api.py: ScansanAPI._request                     *)
(***************************************************************************)
\* def _request(self, endpoint, params=None, retries=3)
DefaultRetries == 3

\* The largest rate_limit_delay tried.
MaxDelay == 2

\* since_last stops counting here: the last request was long ago.
LongAgo == 3 * MaxDelay

\* What one session.get can end in.
Outcomes ==
    {"200", "200 not json", "429", "401", "404", "400", "500",
     "Timeout", "ConnectionError", "Exception"}

Failure(error) == [success |-> FALSE, error |-> error, source |-> "scansan"]

NoResult == [success |-> FALSE, error |-> "none", source |-> "none"]

\* The dict _request returns for an outcome that ends the call.
ResultOf(outcome) ==
    CASE outcome \in {"200", "200 not json"} ->
            [success |-> TRUE, error |-> "none", source |-> "scansan"]
      [] outcome = "429" -> Failure("Rate limited - try again later")
      [] outcome = "401" -> Failure("Authentication failed - check API key")
      [] outcome = "404" -> Failure("Not found: endpoint")
      [] outcome = "400" -> Failure("Bad request - check parameters")
      [] outcome = "500" -> Failure("HTTP 500")
      [] outcome = "Timeout" -> Failure("Request timeout")
      [] outcome = "ConnectionError" -> Failure("Connection error")
      [] outcome = "Exception" -> Failure("str(e)")

\* Mutant: the same wait before every retry.
WaitTimeFlat(d, r) == d * 2

\* wait_time = self.rate_limit_delay * (4 - retries) * 2
WaitTime(d, r) == d * (4 - r) * 2

\* Mutant: the recursive call passes retries on unchanged.
RetriesKept(r) == r

\* self._request(endpoint, params, retries - 1)
RetriesLeft(r) == r - 1

Min(a, b) == IF a < b THEN a ELSE b

\* _rate_limit(): sleep for what is left of rate_limit_delay since the last request.
RateLimitSleep(d, elapsed) == IF elapsed < d THEN d - elapsed ELSE 0

ScansanInit ==
    /\ rq_pc = "idle"
    /\ rate_limit_delay \in 1..MaxDelay
    /\ call_retries = DefaultRetries
    /\ retries = DefaultRetries
    /\ since_last = LongAgo
    /\ statuses = <<>>
    /\ waits = <<>>
    /\ slept_before = 0
    /\ rate_slept = 0
    /\ rq_result = NoResult

\* A caller invokes _request, gap after the previous call returned.
Call(r, gap) ==
    /\ UNCHANGED notScansanVars
    /\ rq_pc \in {"idle", "returned"}
    /\ rq_pc' = "request"
    /\ call_retries' = r
    /\ retries' = r
    /\ since_last' = Min(LongAgo, since_last + gap)
    /\ statuses' = <<>>
    /\ waits' = <<>>
    /\ slept_before' = 0
    /\ rate_slept' = 0
    /\ rq_result' = NoResult
    /\ UNCHANGED rate_limit_delay

\* _rate_limit(), session.get and the dispatch on the response: the call
\* returns, or on 429 with retries left computes its backoff.
Send(outcome) ==
    /\ UNCHANGED notScansanVars
    /\ rq_pc = "request"
    /\ statuses' = Append(statuses, outcome)
    /\ rate_slept' = RateLimitSleep(rate_limit_delay, since_last)
    /\ since_last' = 0
    /\ slept_before' = 0
    /\ IF outcome = "429" /\ retries > 0
          THEN /\ rq_pc' = "backoff"
               /\ UNCHANGED rq_result
          ELSE /\ rq_pc' = "returned"
               /\ rq_result' = ResultOf(outcome)
    /\ UNCHANGED <<rate_limit_delay, call_retries, retries, waits>>

\* time.sleep(wait_time); return self._request(endpoint, params, retries - 1)
Backoff ==
    /\ UNCHANGED notScansanVars
    /\ rq_pc = "backoff"
    /\ LET w == WaitTime(rate_limit_delay, retries)
       IN /\ waits' = Append(waits, w)
          /\ slept_before' = w
          /\ since_last' = Min(LongAgo, since_last + w)
    /\ retries' = RetriesLeft(retries)
    /\ rq_pc' = "request"
    /\ UNCHANGED <<rate_limit_delay, call_retries, statuses, rate_slept, rq_result>>

ScansanNext ==
    \/ \E r \in 0..DefaultRetries, gap \in {0, 1, LongAgo} : Call(r, gap)
    \/ \E outcome \in Outcomes : Send(outcome)
    \/ Backoff

(***************************************************************************)
(* backend/scraper/flood_risk_scraper.py: FloodRiskScraper.get_flood_risk  *)
(***************************************************************************)
\* The largest number of alerts in a response.
MaxAlerts == 2

\* An element of "items". kind says what its severityLevel is: an "int"
\* (level), "absent", "null" or a "str"; "notdict" is an element that is no
\* JSON object.
Item(kind, level) == [kind |-> kind, level |-> level]

Items ==
    {Item("int", n) : n \in -1..5}
        \cup {Item(k, 0) : k \in {"absent", "null", "str", "notdict"}}

\* What session.get and response.json() can end in: an exception of
\* requests, a status other than 200, a body that is no JSON, JSON that is no
\* object, an object without "items", with "items": null, or with alerts.
FloodResponse(kind, status, items) ==
    [kind |-> kind, status |-> status, items |-> items]

FloodResponses ==
    {FloodResponse(k, 0, <<>>) : k \in {"ConnectionError", "Timeout"}}
        \cup {FloodResponse("status", s, <<>>) : s \in {404, 500}}
        \cup {FloodResponse(k, 200, <<>>) :
                 k \in {"notjson", "notdict", "noitems", "nullitems"}}
        \cup {FloodResponse("items", 200, l) :
                 l \in UNION {[1..n -> Items] : n \in 0..MaxAlerts}}

FloodResult(exc, success, level, score) ==
    [exc |-> exc, success |-> success, risk_level |-> level, risk_score |-> score]

NoFloodResult == FloodResult("none", FALSE, "none", 0)

\* _default_low_risk()
DefaultLowRisk == FloodResult("none", TRUE, "Low", 0)

\* risk_map.get(highest_severity, risk_map[4]), with the default turned into
\* the entry for Severe.
RiskMapDefaultsHigh(s) ==
    CASE s = 2 -> [level |-> "Medium-High", score |-> 7]
      [] s = 3 -> [level |-> "Medium", score |-> 4]
      [] s = 4 -> [level |-> "Low", score |-> 0]
      [] OTHER -> [level |-> "High", score |-> 10]

\* risk_map.get(highest_severity, risk_map[4])
RiskMap(s) ==
    CASE s = 1 -> [level |-> "High", score |-> 10]
      [] s = 2 -> [level |-> "Medium-High", score |-> 7]
      [] s = 3 -> [level |-> "Medium", score |-> 4]
      [] OTHER -> [level |-> "Low", score |-> 0]

\* The loop over items from element i on: item.get("severityLevel", 4) and
\* the comparison with highest_severity. exc names the exception it raised.
RECURSIVE HighestSeverity(_, _, _)
HighestSeverity(items, i, highest) ==
    IF i > Len(items) THEN [exc |-> "none", severity |-> highest]
    ELSE CASE items[i].kind = "notdict" ->
                  [exc |-> "AttributeError", severity |-> highest]
           [] items[i].kind \in {"null", "str"} ->
                  [exc |-> "TypeError", severity |-> highest]
           [] OTHER ->
                  LET severity == IF items[i].kind = "absent" THEN 4
                                  ELSE items[i].level
                  IN  HighestSeverity(items, i + 1,
                          IF severity < highest THEN severity ELSE highest)

\* The body of the try block: the dict it returns, or the exception raised.
TryFloodRisk(r) ==
    CASE r.kind \in {"ConnectionError", "Timeout"} -> FloodResult(r.kind, FALSE, "none", 0)
      [] r.kind = "status" -> DefaultLowRisk
      [] r.kind = "notjson" -> FloodResult("JSONDecodeError", FALSE, "none", 0)
      [] r.kind = "notdict" -> FloodResult("AttributeError", FALSE, "none", 0)
      [] r.kind \in {"noitems", "nullitems"} -> DefaultLowRisk
      [] r.kind = "items" ->
            IF r.items = <<>> THEN DefaultLowRisk
            ELSE LET h == HighestSeverity(r.items, 1, 4)
                 IN  IF h.exc # "none" THEN FloodResult(h.exc, FALSE, "none", 0)
                     ELSE FloodResult("none", TRUE, RiskMap(h.severity).level,
                                      RiskMap(h.severity).score)

\* The exceptions "except Exception" catches.
ExceptionSubclasses ==
    {"ConnectionError", "Timeout", "JSONDecodeError", "AttributeError", "TypeError"}

\* A get_flood_risk call is made, the request ending in fl_response.
FloodInit ==
    /\ fl_pc = "called"
    /\ fl_response \in FloodResponses
    /\ fl_result = NoFloodResult

FloodIdle ==
    /\ fl_pc = "idle"
    /\ fl_response = FloodResponse("noitems", 200, <<>>)
    /\ fl_result = NoFloodResult

\* get_flood_risk(lat, lng): the try block and its except clause.
GetFloodRisk ==
    /\ UNCHANGED notFloodVars
    /\ fl_pc = "called"
    /\ LET t == TryFloodRisk(fl_response)
       IN  CASE t.exc = "none" ->
                    /\ fl_pc' = "returned"
                    /\ fl_result' = t
             [] t.exc \in ExceptionSubclasses ->
                    /\ fl_pc' = "returned"
                    /\ fl_result' = FloodResult("none", FALSE, "Unknown", 0)
             [] OTHER ->
                    /\ fl_pc' = "raised"
                    /\ fl_result' = t
    /\ UNCHANGED fl_response

(***************************************************************************)
(* UKPropertyResiliencePredictor.calculate_spatial_lag_features            *)
(*                                                                         *)
(* Numbers are exact fractions <<numerator, denominator>>; a spatial_std_*  *)
(* key holds the variance its standard deviation is the root of.           *)
(***************************************************************************)
\* self.n_spatial_neighbors (5 by default), scaled down.
n_spatial_neighbors == 2

Sectors == {"A", "B", "C", "D"}

\* The centroids tried, on a line: in the first table no two pairs of
\* centroids are equally far apart; in the second, C and D have the same
\* centroid.
ApartCoords == [s \in Sectors |-> CASE s = "A" -> 0 [] s = "B" -> 1
                                    [] s = "C" -> 3 [] s = "D" -> 7]

CoordTables == {ApartCoords, [ApartCoords EXCEPT !["D"] = 3]}

Coord(s) == postcode_coords[s]

\* The row of a sector in postcode_coords_df.
RowIndex(s) == CASE s = "A" -> 1 [] s = "B" -> 2 [] s = "C" -> 3 [] s = "D" -> 4

\* The order in which the tree reports two centroids at the same distance is
\* not specified: by row index, upwards or downwards.
TieBreaks == {"first row", "last row"}

ReportedBefore(x, y) ==
    IF tie_break = "first row" THEN RowIndex(x) < RowIndex(y)
    ELSE RowIndex(x) > RowIndex(y)

Distance(s, t) ==
    IF Coord(s) < Coord(t) THEN Coord(t) - Coord(s) ELSE Coord(s) - Coord(t)

key_features ==
    <<"median_price", "price_growth_1yr", "price_volatility", "max_drawdown",
      "n_recent_transactions">>

\* The value column f of sector_stats_df holds in the row of sector s.
SectorStat(s, f) ==
    (Coord(s) + 2) * (CHOOSE i \in 1..Len(key_features) : key_features[i] = f)

Zero == <<0, 1>>

SpatialKeys ==
    {"spatial_lag_" \o key_features[i] : i \in 1..Len(key_features)}
        \cup {"spatial_std_" \o key_features[i] : i \in 1..Len(key_features)}
        \cup {"avg_neighbor_distance_km"}

\* _get_default_spatial_lag_features()
DefaultSpatialLagFeatures == [k \in SpatialKeys |-> Zero]

RECURSIVE SumSeq(_)
SumSeq(q) == IF q = <<>> THEN 0 ELSE Head(q) + SumSeq(Tail(q))

RECURSIVE ProdSeq(_)
ProdSeq(q) == IF q = <<>> THEN 1 ELSE Head(q) * ProdSeq(Tail(q))

\* The centroids of S, nearest to t first.
RECURSIVE ByDistance(_, _)
ByDistance(S, t) ==
    IF S = {} THEN <<>>
    ELSE LET n == CHOOSE x \in S : \A y \in S \ {x} :
                     \/ Distance(x, t) < Distance(y, t)
                     \/ Distance(x, t) = Distance(y, t) /\ ReportedBefore(x, y)
         IN  <<n>> \o ByDistance(S \ {n}, t)

\* self.spatial_tree.query(target_coord, k): the k nearest centroids, the
\* target itself first; scipy reports a neighbour the tree does not have
\* with the index n and an infinite distance.
Query(S, t, k) ==
    [i \in 1..k |-> IF i <= Len(ByDistance(S, t)) THEN ByDistance(S, t)[i]
                    ELSE "missing"]

\* 1 / (neighbor_distances + 0.1), every weight scaled by the same factor
\* (the product of all 10 d + 1, over 10) so that it is an integer.
InverseDistance(ds) ==
    [i \in 1..Len(ds) |->
        ProdSeq([j \in 1..Len(ds) |-> IF j = i THEN 1 ELSE 10 * ds[j] + 1])]

\* np.average(values, weights=weights) with weights / weights.sum()
Average(values, w) ==
    <<SumSeq([i \in 1..Len(w) |-> values[i] * w[i]]), SumSeq(w)>>

\* np.std(values), squared
Variance(values) ==
    LET n == Len(values)
    IN  <<n * SumSeq([i \in 1..n |-> values[i] * values[i]])
             - SumSeq(values) * SumSeq(values), n * n>>

Features(exc, features) == [exc |-> exc, features |-> features]

Raised(exc) == Features(exc, [k \in {} |-> Zero])

\* neighbor_sectors: the sectors at indices[0][1:] of the query.
NeighborSectors(S, t) ==
    LET found == Query(S, t, n_spatial_neighbors + 1)
    IN  [i \in 1..n_spatial_neighbors |-> found[i + 1]]

\* The body of calculate_spatial_lag_features from the query on.
SpatialLagFromNeighbours(S, t, stats) ==
    LET neighbors == NeighborSectors(S, t)
        neighbor_distances ==
            [i \in 1..n_spatial_neighbors |-> Distance(neighbors[i], t)]
        neighbor_stats ==
            SelectSeq(stats, LAMBDA r : \E i \in 1..n_spatial_neighbors :
                                            neighbors[i] = r)
        weights == InverseDistance(neighbor_distances)
        values(f) ==
            [i \in 1..Min(Len(neighbor_stats), Len(weights)) |->
                SectorStat(neighbor_stats[i], f)]
    IN  IF \E i \in 1..n_spatial_neighbors : neighbors[i] = "missing"
           THEN Raised("IndexError")
        ELSE IF Len(neighbor_stats) = 0
           THEN Features("none", DefaultSpatialLagFeatures)
        ELSE IF Len(values("median_price")) # Len(weights)
           THEN Raised("TypeError")
        ELSE Features("none",
                [k \in SpatialKeys |->
                    IF k = "avg_neighbor_distance_km"
                       THEN <<111 * SumSeq(neighbor_distances), n_spatial_neighbors>>
                    ELSE LET f == CHOOSE g \in Range(key_features) :
                                      k \in {"spatial_lag_" \o g, "spatial_std_" \o g}
                         IN  IF k = "spatial_lag_" \o f
                                THEN Average(values(f), weights)
                                ELSE Variance(values(f))])

NoFeatures == Features("not called", DefaultSpatialLagFeatures)

\* Every sector_stats_df: some of the sectors, in any row order.
StatsTables ==
    UNION {{q \in [1..n -> Sectors] : \A i, j \in 1..n : i # j => q[i] # q[j]} :
           n \in 0..Cardinality(Sectors)}

\* A call is made, with or without a spatial index built before.
SpatialInit ==
    /\ sp_pc = "called"
    /\ spatial_tree \in {"None", "KDTree"}
    /\ postcode_sectors \in SUBSET Sectors
    /\ (spatial_tree = "None") = (postcode_sectors = {})
    /\ postcode_coords \in CoordTables
    /\ tie_break \in TieBreaks
    /\ neighbor_sectors = <<>>
    /\ postcode_sector \in Sectors
    /\ sector_stats_df \in StatsTables
    /\ sp_result = NoFeatures

SpatialIdle ==
    /\ sp_pc = "idle"
    /\ spatial_tree = "None"
    /\ postcode_sectors = {}
    /\ postcode_coords = ApartCoords
    /\ tie_break = "first row"
    /\ neighbor_sectors = <<>>
    /\ postcode_sector = "A"
    /\ sector_stats_df = <<>>
    /\ sp_result = NoFeatures

\* calculate_spatial_lag_features(postcode_sector, sector_stats_df)
CalculateSpatialLagFeatures ==
    /\ UNCHANGED notSpatialVars
    /\ sp_pc = "called"
    /\ sp_result' =
          IF spatial_tree = "None"
             THEN Features("none", DefaultSpatialLagFeatures)
          ELSE IF postcode_sector \notin postcode_sectors
             THEN Features("none", DefaultSpatialLagFeatures)
          ELSE SpatialLagFromNeighbours(postcode_sectors, postcode_sector,
                                        sector_stats_df)
    /\ neighbor_sectors' =
          IF spatial_tree = "None" \/ postcode_sector \notin postcode_sectors
             THEN <<>>
             ELSE NeighborSectors(postcode_sectors, postcode_sector)
    /\ sp_pc' = IF sp_result'.exc = "none" THEN "returned" ELSE "raised"
    /\ UNCHANGED <<spatial_tree, postcode_sectors, postcode_coords, tie_break,
                   postcode_sector, sector_stats_df>>

(***************************************************************************)
(* UKPropertyResiliencePredictor.extract_postcode_sector                   *)
(*                                                                         *)
(* A string is the sequence of its characters.                             *)
(***************************************************************************)
\* The longest postcode string tried.
MaxPostcodeLen == 4

\* An upper-case letter, a lower-case letter, a digit and the space.
Chars == {"A", "a", "3", " "}

Str(chars) == [kind |-> "str", chars |-> chars]

NoneValue == [kind |-> "None", chars |-> <<>>]

NaN == [kind |-> "NaN", chars |-> <<>>]

PostcodeArgs ==
    {NoneValue, NaN}
        \cup {Str(q) : q \in UNION {[1..n -> Chars] : n \in 0..MaxPostcodeLen}}

\* str.strip(), one side at a time
RECURSIVE LStrip(_)
LStrip(q) == IF q # <<>> /\ Head(q) = " " THEN LStrip(Tail(q)) ELSE q

RECURSIVE RStrip(_)
RStrip(q) ==
    IF q # <<>> /\ q[Len(q)] = " " THEN RStrip(SubSeq(q, 1, Len(q) - 1)) ELSE q

\* str.upper()
Upper(q) == [i \in 1..Len(q) |-> IF q[i] = "a" THEN "A" ELSE q[i]]

\* str.split(): the runs of characters between runs of whitespace
RECURSIVE Split(_)
Split(q) ==
    LET s == LStrip(q)
    IN  IF s = <<>> THEN <<>>
        ELSE LET n == CHOOSE i \in 1..(Len(s) + 1) :
                         /\ i = Len(s) + 1 \/ s[i] = " "
                         /\ \A j \in 1..(i - 1) : s[j] # " "
             IN  <<SubSeq(s, 1, n - 1)>> \o Split(SubSeq(s, n, Len(s)))

\* extract_postcode_sector(postcode)
ExtractPostcodeSector(pc) ==
    IF pc.kind \in {"None", "NaN"} \/ pc = Str(<<>>) THEN NoneValue
    ELSE LET stripped == Upper(RStrip(LStrip(pc.chars)))
             parts == Split(stripped)
         IN  IF Len(parts) = 2
                THEN Str(parts[1] \o <<" ">> \o <<parts[2][1]>>)
                ELSE Str(stripped)

NoSector == [kind |-> "not called", chars |-> <<>>]

SectorInit ==
    /\ ps_pc = "called"
    /\ ps_postcode \in PostcodeArgs
    /\ ps_result = NoSector
    /\ ps_again = NoSector

SectorIdle ==
    /\ ps_pc = "idle"
    /\ ps_postcode = NoneValue
    /\ ps_result = NoSector
    /\ ps_again = NoSector

ExtractSector ==
    /\ UNCHANGED notSectorVars
    /\ ps_pc = "called"
    /\ ps_pc' = "returned"
    /\ ps_result' = ExtractPostcodeSector(ps_postcode)
    /\ UNCHANGED <<ps_postcode, ps_again>>

\* extract_postcode_sector called on a value it returned (a sector key).
ExtractSectorAgain ==
    /\ UNCHANGED notSectorVars
    /\ ps_pc = "returned"
    /\ ps_result.kind = "str"
    /\ ps_pc' = "reapplied"
    /\ ps_again' = ExtractPostcodeSector(ps_result)
    /\ UNCHANGED <<ps_postcode, ps_result>>

SectorNext ==
    \/ ExtractSector
    \/ ExtractSectorAgain

(***************************************************************************)
(* UKPropertyResiliencePredictor.construct_resilience_labels               *)
(*                                                                         *)
(* Scores are numerators over the common denominator ScoreScale of the     *)
(* table; cut points are numerators over 100 * ScoreScale.                 *)
(***************************************************************************)
\* The largest number of sectors in sector_stats_df.
MaxSectors == 3

\* 1 / epsilon for the epsilon added to the two denominators (1e-8 in the
\* code), scaled down.
EpsInverse == 10

\* The columns of a row that construct_resilience_labels reads.
StatRows ==
    [max_drawdown : {0, 30, 90}, price_volatility : {0, 1},
     price_growth_1yr : {-1, 0, 2}]

Column(df, c) == [i \in 1..Len(df) |-> df[i][c]]

MaxOf(q) == CHOOSE x \in Range(q) : \A y \in Range(q) : y <= x

MinOf(q) == CHOOSE x \in Range(q) : \A y \in Range(q) : x <= y

\* df['price_volatility'].max() + 1e-8, times EpsInverse
VolatilityDen(df) == MaxOf(Column(df, "price_volatility")) * EpsInverse + 1

\* df['price_growth_1yr'].max() - df['price_growth_1yr'].min() + 1e-8, times
\* EpsInverse
GrowthDen(df) ==
    (MaxOf(Column(df, "price_growth_1yr")) - MinOf(Column(df, "price_growth_1yr")))
        * EpsInverse + 1

ScoreScale(df) == 1000 * VolatilityDen(df) * GrowthDen(df)

\* Series.clip(lo, hi)
Clip(x, lo, hi) == IF x < lo THEN lo ELSE IF x > hi THEN hi ELSE x

\* (0.4 * max_drawdown_norm + 0.3 * volatility_norm + 0.3 * growth_norm)
\*     .clip(0, 1) of row i
ResilienceScore(df, i) ==
    LET A == VolatilityDen(df)
        B == GrowthDen(df)
        growth_min == MinOf(Column(df, "price_growth_1yr"))
    IN  Clip(4 * (100 - df[i].max_drawdown) * A * B
                + 300 * (A - df[i].price_volatility * EpsInverse) * B
                + 300 * (df[i].price_growth_1yr - growth_min) * EpsInverse * A,
             0, ScoreScale(df))

RECURSIVE SortAscending(_)
SortAscending(q) ==
    IF q = <<>> THEN <<>>
    ELSE LET i == CHOOSE i \in 1..Len(q) : \A j \in 1..Len(q) : q[i] <= q[j]
         IN  <<q[i]>> \o SortAscending([j \in 1..(Len(q) - 1) |->
                                     IF j < i THEN q[j] ELSE q[j + 1]])

\* Series.quantile(pct / 100), linear interpolation, times 100
ScoreQuantile(q, pct) ==
    LET sorted == SortAscending(q)
        pos == (Len(q) - 1) * pct
        lo == (pos \div 100) + 1
        frac == pos % 100
    IN  sorted[lo] * (100 - frac) + (IF frac = 0 THEN 0 ELSE sorted[lo + 1] * frac)

\* The lambda of lines 338-339 with the comparisons turned round.
ResilienceLabelReversed(x, tertiles) ==
    IF 100 * x >= tertiles[1] THEN "Low"
    ELSE IF 100 * x >= tertiles[2] THEN "Medium" ELSE "High"

\* 'Low' if x <= tertiles.iloc[0] else ('Medium' if x <= tertiles.iloc[1]
\* else 'High')
ResilienceLabel(x, tertiles) ==
    IF 100 * x <= tertiles[1] THEN "Low"
    ELSE IF 100 * x <= tertiles[2] THEN "Medium" ELSE "High"

NoLabels == [scale |-> 1, resilience_score |-> <<>>, tertiles |-> <<0, 0>>,
             resilience_label |-> <<>>]

LabelInit ==
    /\ lb_pc = "called"
    /\ lb_stats \in UNION {[1..n -> StatRows] : n \in 1..MaxSectors}
    /\ lb_result = NoLabels

LabelIdle ==
    /\ lb_pc = "idle"
    /\ lb_stats = <<>>
    /\ lb_result = NoLabels

\* construct_resilience_labels(sector_stats_df)
ConstructResilienceLabels ==
    /\ UNCHANGED notLabelVars
    /\ lb_pc = "called"
    /\ lb_pc' = "returned"
    /\ \E score \in {[i \in 1..Len(lb_stats) |-> ResilienceScore(lb_stats, i)]} :
          \E tertiles \in {<<ScoreQuantile(score, 33), ScoreQuantile(score, 67)>>} :
             lb_result' =
                [scale |-> ScoreScale(lb_stats),
                 resilience_score |-> score,
                 tertiles |-> tertiles,
                 resilience_label |->
                     [i \in 1..Len(score) |-> ResilienceLabel(score[i], tertiles)]]
    /\ UNCHANGED lb_stats

(***************************************************************************)
(* predict(current_price, feature_row) of the price predictor.             *)
(*                                                                         *)
(* Growth and penalty are in units of 1e-5 (GrowthUnit of them make 1);    *)
(* the crime rate is in tenths, prices are whole pounds.                   *)
(***************************************************************************)
GrowthUnit == 100000

\* The outputs model_h(scale(feature_row)) tried for each horizon.
BaseGrowths == {-50000, 0, 4000, 50000}

\* The current prices, flood scores and crime rates (tenths) tried.
Prices == {1, 3, 250, 2000}

RowFloods == {0, 4, 10}

RowCrimes == {0, 50}

Abs(x) == IF x < 0 THEN -x ELSE x

\* round(num / den) as Python rounds: to the nearest integer, a tie to the
\* even one.
Round(num, den) ==
    LET q == num \div den
        r == num % den
    IN  IF 2 * r < den THEN q
        ELSE IF 2 * r > den THEN q + 1
        ELSE IF q % 2 = 0 THEN q ELSE q + 1

\* Mutant: the penalty of one year is applied at every horizon.
AdjustedGrowthFlat(base, flood, crime10, h) == base - RiskPenalty(flood, crime10, 1)

\* adjusted_growth = base_growth - penalty
AdjustedGrowth(base, flood, crime10, h) == base - RiskPenalty(flood, crime10, h)

\* price_value = round(current_price * (1 + adjusted_growth))
PriceValue(current_price, adjusted) ==
    Round(current_price * (GrowthUnit + adjusted), GrowthUnit)

PredictInput(current_price, flood, crime10, base) ==
    [current_price |-> current_price, flood |-> flood, crime |-> crime10,
     base_growth |-> base]

NoForecasts ==
    [h \in Horizons |-> [growth |-> 0, price_value |-> 0, risk_penalty |-> 0]]

PredictInit ==
    /\ pd_pc = "idle"
    /\ pd_input \in {PredictInput(p, f, c, b) :
                        p \in Prices, f \in RowFloods, c \in RowCrimes,
                        b \in [Horizons -> BaseGrowths]}
    /\ forecasts = NoForecasts

PredictIdle ==
    /\ pd_pc = "idle"
    /\ pd_input = PredictInput(1, 0, 0, [h \in Horizons |-> 0])
    /\ forecasts = NoForecasts

\* predict(): the forecast of every horizon for the row.
Predict ==
    /\ UNCHANGED notPredictVars
    /\ pd_pc = "idle"
    /\ pd_pc' = "done"
    /\ forecasts' =
          [h \in Horizons |->
              LET adjusted == AdjustedGrowth(pd_input.base_growth[h],
                                             pd_input.flood, pd_input.crime, h)
              IN  [growth |-> adjusted,
                   price_value |-> PriceValue(pd_input.current_price, adjusted),
                   risk_penalty |-> pd_input.base_growth[h] - adjusted]]
    /\ UNCHANGED pd_input


(***************************************************************************)
(* The sector-year aggregator of the price predictor: buckets, lag prices  *)
(* and growth rates. A growth rate is the fraction <<numerator,            *)
(* denominator>>.                                                          *)
(***************************************************************************)
LastYear == 2024

NumYears == 6

Years == (LastYear - NumYears + 1)..LastYear

SampleSectors == {"SW7 3", "E1 6"}

Lags == {1, 3, 5}

\* The noise-reduction floor: a bucket needs tx_count >= 3.
MinTxCount == 3

\* The per-year median prices tried for the first sector: rising, and falling
\* with one year of median 0.
MedianPatterns ==
    {[y \in Years |-> 100 + 10 * (LastYear - y)],
     [y \in Years |-> IF y = LastYear - 3 THEN 0 ELSE 300 - 7 * (LastYear - y)]}

TxGroup(count, median) == [tx_count |-> count, price_median |-> median]

\* Every grouping tried: the first sector has no, two or four transactions in
\* each year; the second sector has five in every year.
TxTables ==
    {[key \in SampleSectors \X Years |->
         IF key[1] = "SW7 3" THEN TxGroup(counts[key[2]], pattern[key[2]])
         ELSE TxGroup(5, 1000 + 50 * (LastYear - key[2]))] :
       counts \in [Years -> {0, 2, 4}], pattern \in MedianPatterns}

\* The buckets kept: those with tx_count >= 3.
HasBucket(tx, s, y) ==
    /\ <<s, y>> \in DOMAIN tx
    /\ tx[<<s, y>>].tx_count >= MinTxCount

\* Mutant: the lag is taken k buckets back in the sector's year order,
\* whatever their years (a positional shift).
LagPriceByPosition(tx, s, y, k) ==
    LET earlier == {z \in Years : z < y /\ HasBucket(tx, s, z)}
        back == {z \in earlier : Cardinality({w \in earlier : w >= z}) = k}
    IN  IF back = {} THEN tx[<<s, y>>].price_median
        ELSE tx[<<s, CHOOSE z \in back : TRUE>>].price_median

\* lag_{k}y: the median of the sector's bucket at year - k, or the current
\* median when there is none.
LagPrice(tx, s, y, k) ==
    IF HasBucket(tx, s, y - k) THEN tx[<<s, y - k>>].price_median
    ELSE tx[<<s, y>>].price_median

\* growth_{k}y = (current - lag) / lag, 0 when the denominator is <= 0.
Growth(current, lag) ==
    IF lag <= 0 THEN Zero ELSE <<current - lag, lag>>

Sample(tx, s, y) ==
    [sector |-> s, year |-> y,
     price_median |-> tx[<<s, y>>].price_median,
     tx_count |-> tx[<<s, y>>].tx_count,
     lag |-> [k \in Lags |-> LagPrice(tx, s, y, k)],
     growth |-> [k \in Lags |->
                    Growth(tx[<<s, y>>].price_median, LagPrice(tx, s, y, k))]]

SampleInit ==
    /\ ag_pc = "idle"
    /\ ag_tx \in TxTables
    /\ samples = {}
    /\ dataset = {}
    /\ training_set = [h \in Horizons |-> {}]

SampleIdle ==
    /\ ag_pc = "idle"
    /\ ag_tx = [key \in SampleSectors \X Years |-> TxGroup(0, 0)]
    /\ samples = {}
    /\ dataset = {}
    /\ training_set = [h \in Horizons |-> {}]

\* The aggregation: one sample per bucket that is kept.
AggregateSectorYears ==
    /\ UNCHANGED notSampleVars
    /\ ag_pc = "idle"
    /\ ag_pc' = "aggregated"
    /\ samples' = {Sample(ag_tx, key[1], key[2]) :
                      key \in {b \in SampleSectors \X Years :
                                  HasBucket(ag_tx, b[1], b[2])}}
    /\ UNCHANGED <<ag_tx, dataset, training_set>>

\* The null target.
NullTarget == <<>>

\* target_growth_{h}y = (future median - current median) / current median
\* when the sector has a bucket at year + h, else null.
Target(tx, s, y, h) ==
    IF HasBucket(tx, s, y + h)
       THEN <<tx[<<s, y + h>>].price_median - tx[<<s, y>>].price_median,
              tx[<<s, y>>].price_median>>
       ELSE NullTarget

\* Mutant: a sample is kept only when all its targets are defined.
RetainedIfAllValid(targets) == \A h \in Horizons : targets[h] # NullTarget

\* A sample is retained as long as at least one horizon is valid.
Retained(targets) == \E h \in Horizons : targets[h] # NullTarget

Labelled(x, targets) ==
    [sector |-> x.sector, year |-> x.year, sample |-> x, target |-> targets]

\* The label constructor: the targets of every sample, the samples kept and
\* the training set of each horizon.
ConstructTargets ==
    /\ UNCHANGED notSampleVars
    /\ ag_pc = "aggregated"
    /\ ag_pc' = "labelled"
    /\ dataset' =
          {r \in {Labelled(x, [h \in Horizons |->
                                  Target(ag_tx, x.sector, x.year, h)]) :
                     x \in samples} : Retained(r.target)}
    /\ training_set' =
          [h \in Horizons |->
              {<<r.sector, r.year>> : r \in {q \in dataset' :
                                               q.target[h] # NullTarget}}]
    /\ UNCHANGED <<ag_tx, samples>>

SampleNext ==
    \/ AggregateSectorYears
    \/ ConstructTargets


(***************************************************************************)
(* backend/app.py: get_batch_properties                                    *)
(***************************************************************************)
\* The longest addresses list tried.
MaxAddresses == 3

Addresses == {"1 High St", "2 Low Rd"}

\* How search_property_multi_source ends for an address.
LookupOutcomes == {"data", "no data", "raises"}

\* The JSON body: "null" (nothing parsed), "no addresses" (no such key),
\* "not a list" (addresses is not an array), "list".
\* postcodes is absent (the default []), null, or a list of postcodes,
\* possibly shorter than addresses.
BatchRequest(body, addresses, postcodes, outcomes) ==
    [body |-> body, addresses |-> addresses, postcodes |-> postcodes,
     outcomes |-> outcomes]

Lists(S) == UNION {[1..n -> S] : n \in 0..MaxAddresses}

PostcodesValue(kind, list) == [kind |-> kind, list |-> list]

NoPostcodes == PostcodesValue("absent", <<>>)

BatchRequests ==
    {BatchRequest(b, <<>>, NoPostcodes, <<>>) :
        b \in {"null", "no addresses", "not a list"}}
        \cup {BatchRequest("list", a, p, o) :
                 a \in Lists(Addresses),
                 p \in {NoPostcodes, PostcodesValue("null", <<>>),
                        PostcodesValue("list", <<>>),
                        PostcodesValue("list", <<"SW7 3PH">>),
                        PostcodesValue("list", <<"SW7 3PH", "E1 6AN", "N1 9GU">>)},
                 o \in Lists(LookupOutcomes)}

\* What the handler appends for an address: the dict the lookup returned, or
\* {"success": False, "error": str(e), "address": address}.
PropertyData(address, pcode, found) ==
    [kind |-> "property_data", success |-> found, error |-> "none",
     address |-> address, postcode |-> pcode]

BatchFailure(address) ==
    [kind |-> "failure", success |-> FALSE, error |-> "str(e)",
     address |-> address, postcode |-> "none"]

BatchResponse(status, success, count, res) ==
    [status |-> status, success |-> success, count |-> count, results |-> res]

NoBatchResponse == BatchResponse("none", FALSE, 0, <<>>)

\* postcodes[i] if i < len(postcodes) else None; len(None) raises TypeError.
PostcodeAt(postcodes, i) ==
    IF postcodes.kind = "null" THEN "TypeError"
    ELSE IF postcodes.kind = "absent" THEN "None"
    ELSE IF i <= Len(postcodes.list) THEN postcodes.list[i]
    ELSE "None"

\* Mutant: the first exception ends the loop.
AfterEntryStopOnError(i, entry) ==
    IF entry.kind = "failure" THEN Len(bt_request.addresses) + 1 ELSE i + 1

\* The for loop goes on to the next address after either branch of the try.
AfterEntry(i, entry) == i + 1

BatchInit ==
    /\ bt_pc = "start"
    /\ bt_i = 1
    /\ bt_request \in {r \in BatchRequests :
                          Len(r.outcomes) = Len(r.addresses)}
    /\ bt_results = <<>>
    /\ bt_response = NoBatchResponse

BatchIdle ==
    /\ bt_pc = "idle"
    /\ bt_i = 1
    /\ bt_request = BatchRequest("null", <<>>, NoPostcodes, <<>>)
    /\ bt_results = <<>>
    /\ bt_response = NoBatchResponse

\* The validation of the body: 400 without an addresses list.
BatchValidate ==
    /\ UNCHANGED notBatchVars
    /\ bt_pc = "start"
    /\ IF bt_request.body = "list"
          THEN /\ bt_pc' = "loop"
               /\ UNCHANGED bt_response
          ELSE /\ bt_pc' = "responded"
               /\ bt_response' = BatchResponse("400", FALSE, 0, <<>>)
    /\ UNCHANGED <<bt_i, bt_request, bt_results>>

\* One iteration of the loop over enumerate(addresses).
BatchLookup ==
    /\ UNCHANGED notBatchVars
    /\ bt_pc = "loop"
    /\ bt_i \in 1..Len(bt_request.addresses)
    /\ LET i == bt_i
           address == bt_request.addresses[i]
           pcode == PostcodeAt(bt_request.postcodes, i)
           entry == IF pcode = "TypeError" \/ bt_request.outcomes[i] = "raises"
                       THEN BatchFailure(address)
                       ELSE PropertyData(address, pcode,
                                         bt_request.outcomes[i] = "data")
       IN  /\ bt_results' = Append(bt_results, entry)
           /\ bt_i' = AfterEntry(i, entry)
    /\ UNCHANGED <<bt_pc, bt_request, bt_response>>

\* return jsonify({"success": True, "count": len(results), "results": results}), 200
BatchRespond ==
    /\ UNCHANGED notBatchVars
    /\ bt_pc = "loop"
    /\ bt_i = Len(bt_request.addresses) + 1
    /\ bt_pc' = "responded"
    /\ bt_response' = BatchResponse("200", TRUE, Len(bt_results), bt_results)
    /\ UNCHANGED <<bt_i, bt_request, bt_results>>

BatchNext ==
    \/ BatchValidate
    \/ BatchLookup
    \/ BatchRespond


(***************************************************************************)
(* Properties of backend/app.py.                                           *)
(***************************************************************************)
Answered == response.status # "none"

\* C5: when construction or fit failed during startup, no model is exposed:
\* every request is answered 503 and predict is never invoked on a model that
\* was not fitted.
C5_TrainingFailureYields503 ==
    train_failed =>
        /\ Answered => response.status = "503"
        /\ predict_on # "unfitted"

\* C6: predict_resilience answers 503 without a model, 400 when a model is
\* loaded and the postcode is missing or empty, 500 with success false when
\* gathering live data raises, and never lets an exception escape.
C6_HandlerResponses ==
    Answered =>
        /\ response.status # "unhandled"
        /\ resilience_model = "None" => response.status = "503"
        /\ (resilience_model # "None" /\ request.postcode \in {"None", ""})
              => response.status = "400"
        /\ (resilience_model # "None" /\ request.scrape = "raises")
              => (response.status = "500" /\ ~response.success)

\* C18: with a trained model, a request whose sector the model does not know
\* is answered 200 with forecasts, never with an error: the row handed to
\* predict carries the DefaultStats values and the current price is the fixed
\* fallback of 500000.
C18_UnknownSectorFallsBack ==
    (resilience_model = "fitted" /\ request.lookup = "miss") =>
        /\ response.status = "200"
        /\ response.success
        /\ response.valuation = 500000
        /\ predict_on = "fitted"
        /\ \E d \in DefaultStatsChoices :
              \A c \in Range(d.cols) \ {"flood_risk", "market_regime"} :
                  HasCol(input_data, c) /\ input_data.val[c] = d.val[c]

\* C18 witness: an unknown sector was answered with the fallback price while
\* the live lookup brought a flood score.
C18_Witness ==
    /\ resilience_model = "fitted"
    /\ request.lookup = "miss"
    /\ request.scrape = "flood"
    /\ response.status = "200"
    /\ response.valuation = FallbackPrice
    /\ input_data.val["current_price"] = MeanPrice

\* C19: the row handed to predict has exactly the columns of the fit-time
\* schema, in the fit-time order.
C19_FitTimeSchema ==
    (Answered /\ request.lookup # "none") => input_data.cols = feature_names

\* C9: when the live lookup brought no flood data (and there is no live crime
\* source), the row handed to predict has flood_risk 0 and crime_rate 0, so
\* the risk penalty is 0 at every horizon.
C9_NoHazardZeroPenalty ==
    (response.status = "200" /\ request.scrape = "noflood") =>
        /\ input_data.val["flood_risk"] = 0
        /\ input_data.val["crime_rate"] = 0
        /\ \A h \in Horizons :
              RiskPenalty(input_data.val["flood_risk"],
                          input_data.val["crime_rate"], h) = 0

(***************************************************************************)
(* Properties of the multi-source scraper.                                 *)
(***************************************************************************)
OkSources == {e.source : e \in {e \in Range(results) : Succeeded(e.result)}}

BadSources == Keys(results) \ OkSources

FailedNames == {f.source : f \in Range(aggregated.failed_sources)}

\* C7: the aggregate reports success iff some source succeeded; the
\* successful and the failed sources are disjoint and together are the
\* sources queried; each failed source is listed once, with its error; and
\* the data section holds fields of successful sources only.
C7_AggregateConsistent ==
    aggregated.returned =>
        /\ aggregated.success = (OkSources # {})
        /\ Range(aggregated.sources_queried) = Keys(results)
        /\ Range(aggregated.successful_sources) = OkSources
        /\ FailedNames = BadSources
        /\ Len(aggregated.failed_sources) = Cardinality(BadSources)
        /\ Len(aggregated.successful_sources) = Cardinality(OkSources)
        /\ \A f \in Range(aggregated.failed_sources) :
              LET r == Lookup(results, f.source)
              IN  f.error = IF r.error = "missing" THEN "Unknown error" ELSE r.error
        /\ \A f \in DOMAIN aggregated.data :
              /\ aggregated.data[f].from \in OkSources
              /\ aggregated.data[f].value = Lookup(results, aggregated.data[f].from).payload
        /\ ("flood_risk" \in DOMAIN aggregated.data) => ("flood_risk" \in OkSources)

\* C7 witness: two of three sources failed, the flood source among them; the
\* aggregate is a success holding the land-registry fields only.
C7_Witness ==
    /\ aggregated.returned
    /\ aggregated.success
    /\ Len(aggregated.failed_sources) = 2
    /\ "flood_risk" \in BadSources
    /\ DOMAIN aggregated.data = LandRegistryFields

\* C8: a fetch that raises or times out becomes a failure record for that
\* source; every submitted source gets exactly one entry, the other sources'
\* results are collected as returned, and search_all_sources returns the
\* aggregate instead of raising.
C8_FailingSourceIsolated ==
    /\ sc_pc # "raised"
    /\ Len(results) <= Len(futures)
    /\ \A i \in 1..Len(results) :
          LET s == results[i].source
              r == results[i].result
          IN  /\ s = futures[i]
              /\ collected_as[s] \in {"raised", "timeout"} =>
                    (r.success = "False" /\ r.error # "missing"
                        /\ r.payload = "source=" \o s)
              /\ collected_as[s] = "returned" => r = src_result[s]
    /\ sc_pc = "returned" =>
          /\ Len(results) = Len(futures)
          /\ aggregated.returned
          /\ aggregated.sources_queried = futures

\* C8 witness: the land-registry fetch raised, the flood fetch returned a
\* success, and the aggregate was returned with the flood data.
C8_Witness ==
    /\ sc_pc = "returned"
    /\ collected_as["land_registry"] = "raised"
    /\ collected_as["flood_risk"] = "returned"
    /\ aggregated.success
    /\ aggregated.successful_sources = <<"flood_risk">>

\* C28: once the submissions are made, the land-registry fetch is submitted
\* iff a postcode was given and the flood-risk fetch iff the coordinate
\* lookup returned coordinates (which needs a postcode); nothing else is
\* submitted; the aggregate's sources_queried are the submitted sources;
\* and without a postcode the aggregate is a failure with the error
\* 'All sources failed' and empty source lists.
C28_SubmissionsFollowInputs ==
    sc_pc # "idle" =>
        /\ ("land_registry" \in Range(futures)) <=> (sc_postcode \notin {"None", ""})
        /\ ("flood_risk" \in Range(futures)) <=> (coords = "found")
        /\ coords = "found" => sc_postcode \notin {"None", ""}
        /\ Range(futures) \subseteq {"land_registry", "flood_risk"}
        /\ \A s \in Sources : (src_state[s] # "unsubmitted") <=> (s \in Range(futures))
        /\ aggregated.returned =>
              /\ Range(aggregated.sources_queried) = Range(futures)
              /\ Len(aggregated.sources_queried) = Len(futures)
              /\ sc_postcode \in {"None", ""} =>
                    /\ aggregated.success = FALSE
                    /\ aggregated.error = "All sources failed"
                    /\ aggregated.sources_queried = <<>>
                    /\ aggregated.successful_sources = <<>>
                    /\ aggregated.failed_sources = <<>>

\* C28 witness: a postcode whose coordinate lookup returned nothing: the
\* land registry alone was queried.
C28_Witness ==
    /\ sc_pc = "returned"
    /\ sc_postcode = "SW7 3PH"
    /\ coords = "None"
    /\ futures = <<"land_registry">>
    /\ aggregated.sources_queried = <<"land_registry">>
    /\ src_state["flood_risk"] = "unsubmitted"

(***************************************************************************)
(* Properties of ScansanAPI._request.                                      *)
(***************************************************************************)
\* C10: a call with the default retries sends at most 1 + 3 requests; a
\* request is sent again only after a 429; a call that met 429 on every
\* attempt has sent exactly 4 requests and returns the rate-limit failure; any
\* other outcome ends the call at once.
C10_BoundedRetries ==
    call_retries = DefaultRetries =>
        LET n == Len(statuses) IN
        /\ n <= DefaultRetries + 1
        /\ \A i \in 1..(n - 1) : statuses[i] = "429"
        /\ (rq_pc # "returned" /\ n > 0) => statuses[n] = "429"
        /\ rq_pc = "returned" =>
              /\ n >= 1
              /\ statuses[n] = "429" =>
                    /\ n = DefaultRetries + 1
                    /\ rq_result = Failure("Rate limited - try again later")
              /\ statuses[n] # "429" => rq_result = ResultOf(statuses[n])

\* C10 witness: four requests, all answered 429, and the rate-limit failure.
C10_Witness ==
    /\ rq_pc = "returned"
    /\ call_retries = DefaultRetries
    /\ Len(statuses) = 4
    /\ statuses[4] = "429"
    /\ rq_result = Failure("Rate limited - try again later")

\* C11: in a call with the default retries and rate_limit_delay d > 0, the
\* backoff waits are 2d, 4d, 6d in that order, hence positive and strictly
\* increasing, and every request after the first is sent only after its wait
\* was slept.
C11_IncreasingBackoff ==
    (call_retries = DefaultRetries /\ rate_limit_delay > 0) =>
        /\ Len(waits) <= DefaultRetries
        /\ \A i \in 1..Len(waits) : waits[i] = 2 * i * rate_limit_delay
        /\ \A i \in 1..Len(waits) : waits[i] > 0
        /\ \A i \in 1..(Len(waits) - 1) : waits[i] < waits[i + 1]
        /\ Len(statuses) <= Len(waits) + 1
        /\ (rq_pc = "request" /\ Len(statuses) > 0) =>
              /\ Len(waits) = Len(statuses)
              /\ slept_before = waits[Len(waits)]
        /\ rq_pc \in {"backoff", "returned"} => Len(waits) = Len(statuses) - 1

\* C11 witness: three retries were made, after waits of 2d, 4d and 6d.
C11_Witness ==
    /\ rq_pc = "returned"
    /\ call_retries = DefaultRetries
    /\ rate_limit_delay = 2
    /\ Len(statuses) = 4
    /\ waits = <<4, 8, 12>>

(***************************************************************************)
(* Properties of FloodRiskScraper.get_flood_risk.                          *)
(***************************************************************************)
\* The request or the body failed: an exception of requests, a status other
\* than 200, a body that is no JSON object, or an alert that is no object or
\* whose severityLevel is no number.
FloodFailed ==
    \/ fl_response.kind \in {"ConnectionError", "Timeout", "status", "notjson", "notdict"}
    \/ \E i \in 1..Len(fl_response.items) :
          fl_response.items[i].kind \in {"notdict", "null", "str"}

\* The severity levels the alerts of a well-formed response carry.
AlertLevels ==
    {fl_response.items[i].level :
        i \in {j \in 1..Len(fl_response.items) : fl_response.items[j].kind = "int"}}

\* C12: get_flood_risk always returns; its risk_score is one of 0, 4, 7, 10;
\* it is 0 on every failure; otherwise it is 10, 7 or 4 when the lowest
\* severityLevel among the alerts is 1, 2 or 3, and 0 when that level is
\* outside 1..3 or no alert carries one.
C12_FloodRiskNeverRaises ==
    fl_pc \notin {"idle", "called"} =>
        /\ fl_pc = "returned"
        /\ fl_result.exc = "none"
        /\ fl_result.risk_score \in {0, 4, 7, 10}
        /\ FloodFailed => fl_result.risk_score = 0
        /\ ~FloodFailed =>
              /\ fl_result.success
              /\ fl_result.risk_score =
                    IF AlertLevels = {} THEN 0
                    ELSE LET lowest == CHOOSE l \in AlertLevels :
                                           \A m \in AlertLevels : l <= m
                         IN  CASE lowest = 1 -> 10
                               [] lowest = 2 -> 7
                               [] lowest = 3 -> 4
                               [] OTHER -> 0

\* C12 witness: a response with a malformed alert after a Severe one was
\* answered with score 0, without raising.
C12_Witness ==
    /\ fl_pc = "returned"
    /\ fl_response.kind = "items"
    /\ Len(fl_response.items) = 2
    /\ fl_response.items[1] = Item("int", 1)
    /\ fl_response.items[2].kind = "null"
    /\ ~fl_result.success
    /\ fl_result.risk_score = 0

(***************************************************************************)
(* Properties of calculate_spatial_lag_features.                           *)
(***************************************************************************)
SpatialDone == sp_pc \in {"returned", "raised"}

\* The nearest neighbours of the target: the up to n_spatial_neighbors
\* centroids of the index nearest to it, nearest first.
Neighbours ==
    LET near == ByDistance(postcode_sectors \ {postcode_sector}, postcode_sector)
    IN  SubSeq(near, 1, Min(Len(near), n_spatial_neighbors))

InStats(s) == \E i \in 1..Len(sector_stats_df) : sector_stats_df[i] = s

\* C13: without a spatial index, for a target that is not in the index, and
\* when no nearest neighbour of the target has a row in sector_stats, the
\* call returns the all-zero default vector and does not raise.
C13_DefaultWhenUnresolvable ==
    (/\ SpatialDone
     /\ \/ spatial_tree = "None"
        \/ postcode_sector \notin postcode_sectors
        \/ \A i \in 1..Len(Neighbours) : ~InStats(Neighbours[i]))
        => /\ sp_pc = "returned"
           /\ sp_result.features = DefaultSpatialLagFeatures

\* C14: for every target, index and sector_stats the call returns a dict
\* with exactly the 11 keys of the default vector and does not raise.
C14_StableDimensionality ==
    SpatialDone =>
        /\ sp_pc = "returned"
        /\ DOMAIN sp_result.features = DOMAIN DefaultSpatialLagFeatures
        /\ Cardinality(DOMAIN sp_result.features) = 11

\* The weight of the neighbour at distance d among neighbours at distances
\* ds, as a fraction: (1 / (d + 0.1)) / sum_j (1 / (ds[j] + 0.1)).
WeightAt(d, ds) ==
    <<ProdSeq([j \in 1..Len(ds) |-> 10 * ds[j] + 1]),
      (10 * d + 1) * SumSeq([i \in 1..Len(ds) |->
           ProdSeq([j \in 1..Len(ds) |-> IF j = i THEN 1 ELSE 10 * ds[j] + 1])])>>

\* C15: when every nearest neighbour of the target has a row, each
\* spatial_lag_<stat> is the sum over the neighbours of the neighbour's
\* weight times that same neighbour's statistic; the weights are
\* non-negative, sum to 1, and a nearer neighbour never weighs less.
C15_WeightedByOwnDistance ==
    (/\ sp_pc = "returned"
     /\ postcode_sector \in postcode_sectors
     /\ Len(Neighbours) = n_spatial_neighbors
     /\ \A i \in 1..Len(Neighbours) : InStats(Neighbours[i]))
        => LET ds == [i \in 1..Len(Neighbours) |->
                         Distance(Neighbours[i], postcode_sector)]
               w(i) == WeightAt(ds[i], ds)
               den == w(1)[1] * (w(1)[2] \div (10 * ds[1] + 1))
           IN  /\ \A i \in 1..Len(ds) : w(i)[1] >= 0 /\ w(i)[2] > 0
               /\ SumSeq([i \in 1..Len(ds) |-> w(i)[1] * (den \div w(i)[2])]) = den
               /\ \A i, j \in 1..Len(ds) :
                     ds[i] <= ds[j] => w(i)[1] * w(j)[2] >= w(j)[1] * w(i)[2]
               /\ \A n \in 1..Len(key_features) :
                     LET f == key_features[n]
                         lag == sp_result.features["spatial_lag_" \o f]
                         expected ==
                             SumSeq([i \in 1..Len(ds) |->
                                 SectorStat(Neighbours[i], f) * w(i)[1]
                                     * (den \div w(i)[2])])
                     IN  lag[1] * den = expected * lag[2]

\* C27: whenever the call returns statistics computed from neighbour rows,
\* the target sector is not one of the neighbour sectors they were computed
\* from, also when sectors share a centroid.
C27_TargetNotOwnNeighbour ==
    (/\ sp_pc = "returned"
     /\ \E i \in 1..Len(neighbor_sectors) : InStats(neighbor_sectors[i]))
        => \A i \in 1..Len(neighbor_sectors) :
              neighbor_sectors[i] # postcode_sector

(***************************************************************************)
(* Properties of extract_postcode_sector.                                  *)
(***************************************************************************)
\* The string is an outward code, one space and an inward code.
HasInwardPart(q) ==
    \E i \in 2..(Len(q) - 1) :
        /\ q[i] = " "
        /\ \A j \in 1..Len(q) : j # i => q[j] # " "

\* C16: a postcode with a space-delimited inward part gives the outward
\* code, a space and the first character of the inward code (in upper case);
\* a postcode without one, a missing postcode and the empty string give None.
C16_SectorOrNone ==
    ps_pc = "returned" =>
        IF ps_postcode.kind = "str" /\ HasInwardPart(ps_postcode.chars)
           THEN LET i == CHOOSE i \in 1..Len(ps_postcode.chars) : ps_postcode.chars[i] = " "
                IN  ps_result = Str(Upper(SubSeq(ps_postcode.chars, 1, i + 1)))
           ELSE ps_result = NoneValue

\* C29: extract_postcode_sector applied to a non-null value it returned
\* returns that value.
C29_SectorIdempotent ==
    ps_pc = "reapplied" => ps_again = ps_result

(***************************************************************************)
(* Properties of construct_resilience_labels.                              *)
(***************************************************************************)
ClassRank(label) ==
    CASE label = "Low" -> 1
      [] label = "Medium" -> 2
      [] label = "High" -> 3

\* C17: every sector gets one class of Low, Medium, High: Low when its score
\* is at most the lower cut point, Medium when at most the upper one, High
\* otherwise, the cut points being the 33rd and 67th percentiles of the
\* scores (ordered, and within the range of the scores); a sector whose score
\* is not lower than another's never gets a lower class; every score is in
\* [0, 1].
C17_OrdinalTertileLabels ==
    lb_pc = "returned" =>
        LET score == lb_result.resilience_score
            label == lb_result.resilience_label
            cut == lb_result.tertiles
            n == Len(lb_stats)
        IN  /\ Len(score) = n /\ Len(label) = n
            /\ \A i \in 1..n : 0 <= score[i] /\ score[i] <= lb_result.scale
            /\ cut[1] <= cut[2]
            /\ 100 * MinOf(score) <= cut[1] /\ cut[2] <= 100 * MaxOf(score)
            /\ \A i \in 1..n :
                  /\ label[i] \in {"Low", "Medium", "High"}
                  /\ label[i] = "Low" <=> 100 * score[i] <= cut[1]
                  /\ label[i] = "Medium" <=>
                        (cut[1] < 100 * score[i] /\ 100 * score[i] <= cut[2])
                  /\ label[i] = "High" <=> cut[2] < 100 * score[i]
            /\ \A i, j \in 1..n :
                  score[i] >= score[j] => ClassRank(label[i]) >= ClassRank(label[j])

\* C17 witness: three sectors with different scores got the three classes.
C17_Witness ==
    /\ lb_pc = "returned"
    /\ Len(lb_stats) = 3
    /\ \E i, j, k \in 1..3 :
          /\ lb_result.resilience_label[i] = "Low"
          /\ lb_result.resilience_label[j] = "Medium"
          /\ lb_result.resilience_label[k] = "High"
          /\ lb_result.resilience_score[i] < lb_result.resilience_score[j]
          /\ lb_result.resilience_score[j] < lb_result.resilience_score[k]

(***************************************************************************)
(* Properties of the risk overlay.                                         *)
(***************************************************************************)
\* C20: the risk penalty is never negative, and of two penalties computed for
\* inputs that differ in one of flood score, crime rate and horizon only,
\* the one for the larger input is not the smaller one.
C20_PenaltyMonotone ==
    /\ [](risk_penalty >= 0)
    /\ [][(/\ pen_input.flood <= pen_input'.flood
           /\ pen_input.crime <= pen_input'.crime
           /\ pen_input.h <= pen_input'.h
           /\ Cardinality({k \in {"flood", "crime", "h"} :
                               pen_input[k] # pen_input'[k]}) <= 1)
              => risk_penalty <= risk_penalty']_vars

\* C20 witness: a penalty for the highest flood score, a crime rate of 2.0
\* and the 5-year horizon.
C20_Witness ==
    /\ pen_input = PenaltyInput(10, 20, 5)
    /\ risk_penalty = 8500

(***************************************************************************)
(* Properties of predict().                                                *)
(***************************************************************************)
\* The exact value current_price * (1 + base_growth_h - penalty_h) with the
\* penalty (flood/10 * 0.015 + crime/10 * 0.010) * h, times GrowthUnit.
ExactValue(h) ==
    pd_input.current_price *
        (GrowthUnit + pd_input.base_growth[h]
            - h * (150 * pd_input.flood + 10 * pd_input.crime))

\* C21: at every horizon the forecast price is the integer nearest to
\* current_price * (1 + base_growth - penalty), the even one of two equally
\* near, the penalty being linear in the horizon; with flood 0 and crime 0
\* the growth is the model's base growth.
C21_ForecastPriceExact ==
    pd_pc = "done" =>
       \A h \in Horizons :
          LET pv == forecasts[h].price_value
              gap == Abs(pv * GrowthUnit - ExactValue(h))
          IN  /\ 2 * gap <= GrowthUnit
              /\ 2 * gap = GrowthUnit => pv % 2 = 0
              /\ (pd_input.flood = 0 /\ pd_input.crime = 0)
                    => forecasts[h].growth = pd_input.base_growth[h]

\* C21 witness: a forecast for flood 10 and crime 5.0 whose 5-year value needed
\* rounding: the penalty is 0.02 per year, and 3 * (1 + 0.04 - 0.1) = 2.82
\* is returned as 3.
C21_Witness ==
    /\ pd_pc = "done"
    /\ pd_input.current_price = 3
    /\ pd_input.flood = 10
    /\ pd_input.crime = 50
    /\ pd_input.base_growth[5] = 4000
    /\ forecasts[5].risk_penalty = 10000
    /\ forecasts[5].price_value = 3
    /\ forecasts[1].risk_penalty = 2000


(***************************************************************************)
(* Properties of the sector-year aggregator.                               *)
(***************************************************************************)
\* A bucket of at least three transactions of that sector and year.
Qualifies(s, y) ==
    /\ y \in Years
    /\ ag_tx[<<s, y>>].tx_count >= 3

\* C22: for every sample and every k in {1, 3, 5}: when the same sector has
\* a bucket at year - k, lag_k is that bucket's median and growth_k is
\* (current median - lag_k) / lag_k, or 0 when lag_k <= 0; when it has none,
\* lag_k is the current median and growth_k is 0.
C22_LagAndGrowth ==
    \A x \in samples : \A k \in Lags :
       IF Qualifies(x.sector, x.year - k)
          THEN LET m == ag_tx[<<x.sector, x.year - k>>].price_median
               IN  /\ x.lag[k] = m
                   /\ IF m <= 0 THEN x.growth[k][1] = 0
                      ELSE x.growth[k][1] * m
                              = (x.price_median - m) * x.growth[k][2]
          ELSE /\ x.lag[k] = x.price_median
               /\ x.growth[k][1] = 0

\* C22 witness: a sector with buckets at 2019, 2021 and 2024 only: at 2024
\* the 3-year lag is the 2021 median and the growth is exact, the 1-year
\* lag falls back to the current median, and
\* the 5-year lag is the 2019 median.
C22_Witness ==
    \E x \in samples :
       /\ x.sector = "SW7 3" /\ x.year = 2024
       /\ x.price_median = 100
       /\ ~Qualifies("SW7 3", 2023) /\ ~Qualifies("SW7 3", 2022)
       /\ ~Qualifies("SW7 3", 2020)
       /\ x.lag[3] = 130 /\ x.growth[3] = <<-30, 130>>
       /\ x.lag[1] = 100 /\ x.growth[1][1] = 0
       /\ x.lag[5] = 150 /\ x.growth[5] = <<-50, 150>>


\* C23: for every sample and each horizon h the target is defined exactly
\* when the same sector has a bucket at year + h; the training set of
\* horizon h holds exactly the samples whose horizon-h target is defined,
\* and the dataset keeps exactly the samples with at least one defined target.
C23_TargetsPerHorizon ==
    ag_pc = "labelled" =>
       /\ \A r \in dataset : \A h \in Horizons :
             (Len(r.target[h]) = 2) <=> Qualifies(r.sector, r.year + h)
       /\ \A h \in Horizons :
             training_set[h] =
                {<<x.sector, x.year>> : x \in {z \in samples :
                                                 Qualifies(z.sector, z.year + h)}}
       /\ {<<r.sector, r.year>> : r \in dataset} =
             {<<x.sector, x.year>> :
                 x \in {z \in samples :
                           \E h \in Horizons : Qualifies(z.sector, z.year + h)}}
       /\ \A r \in dataset : r.sample \in samples

\* C23 witness: the 2021 sample of a sector with buckets at 2021 and 2024
\* only is kept for its 3-year target alone: it trains the 3-year model and
\* no other.
C23_Witness ==
    /\ ag_pc = "labelled"
    /\ \E r \in dataset :
          /\ r.sector = "SW7 3" /\ r.year = 2021
          /\ r.target[3] = <<-30, 130>>
          /\ r.target[1] = <<>> /\ r.target[5] = <<>>
          /\ <<"SW7 3", 2021>> \in training_set[3]
          /\ <<"SW7 3", 2021>> \notin training_set[1] \cup training_set[5]
    /\ \E x \in samples :
          /\ x.sector = "SW7 3" /\ x.year = 2024
          /\ <<"SW7 3", 2024>> \notin {<<r.sector, r.year>> : r \in dataset}

(***************************************************************************)
(* Properties of get_batch_properties.                                     *)
(***************************************************************************)
\* C30: for a body with an addresses list the response is 200 with count
\* the number of addresses and one result per address, in order; the result
\* of an address whose lookup raised is the failure record of that address,
\* and every other address has the data its own lookup returned.
C30_BatchIsolatesFailures ==
    (bt_pc = "responded" /\ bt_request.body = "list") =>
        LET addresses == bt_request.addresses
            res == bt_response.results
        IN  /\ bt_response.status = "200"
            /\ bt_response.success
            /\ bt_response.count = Len(addresses)
            /\ Len(res) = Len(addresses)
            /\ \A i \in 1..Len(addresses) :
                  /\ res[i].address = addresses[i]
                  /\ bt_request.outcomes[i] = "raises" =>
                        /\ res[i].kind = "failure"
                        /\ res[i].success = FALSE
                        /\ res[i].error # "none"
                  /\ (bt_request.outcomes[i] # "raises"
                        /\ bt_request.postcodes.kind # "null") =>
                        /\ res[i].kind = "property_data"
                        /\ res[i].success = (bt_request.outcomes[i] = "data")

\* C30 witness: of three addresses the lookup of the first raised and the
\* other two were still looked up, the last one with data.
C30_Witness ==
    /\ bt_pc = "responded"
    /\ bt_response.status = "200"
    /\ bt_response.count = 3
    /\ bt_request.outcomes = <<"raises", "no data", "data">>
    /\ bt_request.addresses = <<"1 High St", "2 Low Rd", "1 High St">>
    /\ bt_response.results[1].kind = "failure"
    /\ bt_response.results[3].success
    /\ bt_response.results[2].postcode = "None"
    /\ bt_request.postcodes = PostcodesValue("list", <<"SW7 3PH">>)


(***************************************************************************)
(* Specifications: each runs one component and leaves the others at rest.  *)
(***************************************************************************)
FitIdle ==
    /\ parallel_training = FALSE
    /\ use_stacking = FALSE
    /\ fit_raises = [a \in Attempts |-> {}]
    /\ submit_raises = "none"
    /\ fit_pc = "idle"
    /\ task_pc = [l \in Learners |-> "idle"]
    /\ seq_idx = 0
    /\ seq_pc = "idle"
    /\ label_encoder = [fitted |-> FALSE, by |-> None]
    /\ lgb_classifier = NoEstimator
    /\ rf_classifier = NoEstimator
    /\ en_classifier = NoEstimator
    /\ feature_importances = [l \in Learners |-> None]
    /\ classes_ = None
    /\ y_train_encoded = [l \in Learners |-> NotEncoded]
    /\ trained_on = [l \in Learners |-> NoTraining]
    /\ meta_classifier = None
    /\ model_weights = None
    /\ pool_exc = FALSE
    /\ par_raised = FALSE
    /\ seq_status = "none"
    /\ post_raised = FALSE
    /\ acc = [o \in Objects |-> {}]
    /\ conflicts = {}

ScrapeIdle == ScrapeInit

ScansanIdle ==
    /\ rq_pc = "idle"
    /\ rate_limit_delay = 1
    /\ call_retries = DefaultRetries
    /\ retries = DefaultRetries
    /\ since_last = LongAgo
    /\ statuses = <<>>
    /\ waits = <<>>
    /\ slept_before = 0
    /\ rate_slept = 0
    /\ rq_result = NoResult

InitFit ==
    /\ FitInit /\ AppInit /\ ScrapeIdle /\ ScansanIdle /\ FloodIdle
    /\ SpatialIdle /\ SectorIdle /\ LabelIdle /\ PenaltyInit
    /\ PredictIdle /\ SampleIdle /\ BatchIdle

SpecFit == InitFit /\ [][FitNext]_vars

InitApp ==
    /\ AppInit /\ FitIdle /\ ScrapeIdle /\ ScansanIdle /\ FloodIdle
    /\ SpatialIdle /\ SectorIdle /\ LabelIdle /\ PenaltyInit
    /\ PredictIdle /\ SampleIdle /\ BatchIdle

SpecApp == InitApp /\ [][AppNext]_vars

InitScrape ==
    /\ ScrapeInit /\ FitIdle /\ AppInit /\ ScansanIdle /\ FloodIdle
    /\ SpatialIdle /\ SectorIdle /\ LabelIdle /\ PenaltyInit
    /\ PredictIdle /\ SampleIdle /\ BatchIdle

SpecScrape == InitScrape /\ [][ScrapeNext]_vars

\* Every results dict _aggregate_results can be handed: up to three sources
\* in any insertion order, each with any of the dict shapes.
DictShapes(s) ==
    {Dict("True", "missing", "data:" \o s), Dict("False", "API error", "data:" \o s),
     Dict("False", "missing", "data:" \o s), Dict("missing", "missing", "data:" \o s)}

Entries == {Entry(s, r) : s \in Sources, r \in UNION {DictShapes(x) : x \in Sources}}

ResultDicts ==
    UNION {{res \in [1..n -> {e \in Entries : e.result \in DictShapes(e.source)}] :
               \A i, j \in 1..n : i # j => res[i].source # res[j].source} :
           n \in 0..Cardinality(Sources)}

InitAggregate ==
    /\ FitIdle /\ AppInit /\ ScansanIdle /\ FloodIdle /\ SpatialIdle
    /\ SectorIdle /\ LabelIdle /\ PenaltyInit /\ PredictIdle /\ SampleIdle
    /\ BatchIdle
    /\ sc_pc = "collect"
    /\ sc_postcode = "None"
    /\ coords = "None"
    /\ results \in ResultDicts
    /\ futures = [i \in 1..Len(results) |-> results[i].source]
    /\ src_state = [s \in Sources |->
          IF s \in Keys(results) THEN "returned" ELSE "unsubmitted"]
    /\ src_result = [s \in Sources |->
          IF s \in Keys(results) THEN Lookup(results, s) ELSE NoDict]
    /\ collected_as = [s \in Sources |->
          IF s \in Keys(results) THEN "returned" ELSE "none"]
    /\ aggregated = NotAggregated

SpecAggregate == InitAggregate /\ [][Aggregate]_vars

InitScansan ==
    /\ ScansanInit /\ FitIdle /\ AppInit /\ ScrapeIdle /\ FloodIdle
    /\ SpatialIdle /\ SectorIdle /\ LabelIdle /\ PenaltyInit
    /\ PredictIdle /\ SampleIdle /\ BatchIdle

SpecScansan == InitScansan /\ [][ScansanNext]_vars

InitFlood ==
    /\ FloodInit /\ FitIdle /\ AppInit /\ ScrapeIdle /\ ScansanIdle
    /\ SpatialIdle /\ SectorIdle /\ LabelIdle /\ PenaltyInit
    /\ PredictIdle /\ SampleIdle /\ BatchIdle

SpecFlood == InitFlood /\ [][GetFloodRisk]_vars

InitSpatial ==
    /\ SpatialInit /\ FitIdle /\ AppInit /\ ScrapeIdle /\ ScansanIdle
    /\ FloodIdle /\ SectorIdle /\ LabelIdle /\ PenaltyInit /\ PredictIdle
    /\ SampleIdle /\ BatchIdle

SpecSpatial == InitSpatial /\ [][CalculateSpatialLagFeatures]_vars

InitSector ==
    /\ SectorInit /\ FitIdle /\ AppInit /\ ScrapeIdle /\ ScansanIdle
    /\ FloodIdle /\ SpatialIdle /\ LabelIdle /\ PenaltyInit /\ PredictIdle
    /\ SampleIdle /\ BatchIdle

SpecSector == InitSector /\ [][SectorNext]_vars

InitLabel ==
    /\ LabelInit /\ FitIdle /\ AppInit /\ ScrapeIdle /\ ScansanIdle
    /\ FloodIdle /\ SpatialIdle /\ SectorIdle /\ PenaltyInit
    /\ PredictIdle /\ SampleIdle /\ BatchIdle

SpecLabel == InitLabel /\ [][ConstructResilienceLabels]_vars

InitPenalty ==
    /\ PenaltyInit /\ FitIdle /\ AppInit /\ ScrapeIdle /\ ScansanIdle
    /\ FloodIdle /\ SpatialIdle /\ SectorIdle /\ LabelIdle /\ PredictIdle
    /\ SampleIdle /\ BatchIdle

SpecPenalty == InitPenalty /\ [][PenaltyNext]_vars

InitPredict ==
    /\ PredictInit /\ FitIdle /\ AppInit /\ ScrapeIdle /\ ScansanIdle
    /\ FloodIdle /\ SpatialIdle /\ SectorIdle /\ LabelIdle /\ PenaltyInit
    /\ SampleIdle /\ BatchIdle

SpecPredict == InitPredict /\ [][Predict]_vars

InitSample ==
    /\ SampleInit /\ FitIdle /\ AppInit /\ ScrapeIdle /\ ScansanIdle
    /\ FloodIdle /\ SpatialIdle /\ SectorIdle /\ LabelIdle /\ PenaltyInit
    /\ PredictIdle /\ BatchIdle

SpecSample == InitSample /\ [][SampleNext]_vars

InitBatch ==
    /\ BatchInit /\ FitIdle /\ AppInit /\ ScrapeIdle /\ ScansanIdle
    /\ FloodIdle /\ SpatialIdle /\ SectorIdle /\ LabelIdle /\ PenaltyInit
    /\ PredictIdle /\ SampleIdle

SpecBatch == InitBatch /\ [][BatchNext]_vars

====
